---- MODULE Spec2Model ----
(***************************************************************************)
(* usb-moded: cable observer (usb_moded-udev.c), mode controller           *)
(* (usb_moded-control.c) and the worker channel the controller posts to.   *)
(***************************************************************************)
EXTENDS Integers, Sequences, FiniteSets, TLC

VARIABLES
    \* ---- usb_moded-udev.c ----
    cable_state_current,    \* cable state as evaluated from udev events
    cable_state_active,     \* cable state considered active by usb-moded
    cable_state_previous,   \* previously active cable state
    cable_state_timer_id,   \* 0 = no timer, else the id of the timeout source
    timer_sources,          \* main loop: ids of the timeout sources that exist
    timer_last_id,          \* main loop: the id g_timeout_add returned last
    umudev_watch_id,        \* 0 = no io watch, 1 = io watch installed
    umudev_in_cleanup,      \* set by umudev_quit, cleared by umudev_init
    notified,               \* usbmoded_set_*_connected() calls of the last step
    obs_last,               \* history: the observer step taken last
    udev_props,             \* property scenario: the properties of the device
    power_supplies,         \* discovery scenario: the enumerated devices
    downstream,             \* history: the value last notified for each kind
    umudev_sysname,         \* 0 = NULL, else the index of the watched device
    wakelock_held,          \* holds of the process-input wake-lock
    wl_trace,               \* history: wake-lock calls and changes of the last step
    dbPhase,                \* history: Disconnected, PcConnected, Disconnected pattern
    misPhase,               \* history: USB event followed by USB_DCP event
    misPre,                 \* history: observer state before the USB event
    \* ---- usb_moded-control.c ----
    control_internal_mode,  \* the logical mode name
    control_target_mode,    \* last target mode signaled over D-Bus
    control_external_mode,  \* last current mode signaled over D-Bus
    control_cable_state,    \* connection status
    control_user_for_mode,  \* uid of the user that has set the current mode
    \* ---- what the controller reads from the rest of the daemon ----
    current_user,           \* user_get_current_user()
    can_export,             \* usbmoded_can_export()
    rescue_mode,            \* usbmoded_get_rescue_mode()
    diag_mode,              \* usbmoded_get_diag_mode()
    modelist,               \* usbmoded_get_modelist(), names only
    mode_setting,           \* config_get_mode_setting(), per configuration slot
    available_modes,        \* common_get_mode_list(AVAILABLE_MODES_LIST, uid)
    keep_developer_mode,    \* usbmoded_get_keep_developer_mode()
    \* ---- worker channel ----
    worker_requested_mode,  \* latest request not yet picked up, or NULL
    worker_active_mode,     \* request the worker is processing, or NULL
    completions,            \* ModeSwitched events not yet delivered
    \* ---- history ----
    signals,                \* D-Bus signals emitted by the last step, in order
    requested,              \* arguments of control_set_usb_mode in the last step
    selected,               \* control_select_usb_mode_ex call of the last step
    last,                   \* the handler the last step ran
    sent_current,           \* value of the latest current_state signal, or NULL
    sent_target,            \* value of the latest target_state signal, or NULL
    quiescent,              \* no further events arrive
    co_posted,              \* coalescing scenario: the modes requested
    co_started,             \* coalescing scenario: the modes the worker picked up
    co_early,               \* coalescing scenario: a pick-up before the third request
    co_switched,            \* coalescing scenario: control_mode_switched calls
    s1_log,                 \* connect scenario: all signals sent since startup
    \* ---- usb_moded-configfs.c and the files it works on ----
    configfs_probed,        \* -1 = not probed, 0 = not detected, 1 = detected
    udc_probed,             \* configfs_udc_enable_value: static probed
    udc_value,              \* configfs_udc_enable_value: static value
    gadget_root,            \* /config/usb_gadget/g1 exists
    udc_attr,               \* content of the UDC attribute
    id_vendor,              \* content of idVendor
    id_product,             \* content of idProduct
    gadget_strings,         \* strings/0x409/* and the rndis attributes
    function_dirs,          \* directories under functions/
    config_links,           \* symlinks under configs/b.1/
    sys_class_udc,          \* the first link under /sys/class/udc, <<>> if none
    mtp_ep0,                \* /dev/mtp/ep0 exists
    mtpd_running,           \* buteo-mtp.service is started
    init_done,              \* usbmoded_init_done_p()
    be_trace,               \* history: system calls of the last backend step
    be_last,                \* history: the backend step taken last
    be_arg,                 \* history: its argument
    be_ret,                 \* history: its return value
    be_fault,               \* history: the fault it met
    id_input                \* id scenario: the id text passed in

obsvars == <<cable_state_current, cable_state_active, cable_state_previous,
             cable_state_timer_id, timer_sources, timer_last_id,
             umudev_watch_id, umudev_in_cleanup, notified, obs_last, udev_props,
             power_supplies, umudev_sysname, downstream, wakelock_held, wl_trace,
             dbPhase, misPhase, misPre>>

ctlvars == <<control_internal_mode, control_target_mode, control_external_mode,
             control_cable_state, control_user_for_mode, worker_requested_mode>>

envvars == <<current_user, can_export>>

cfgvars == <<rescue_mode, diag_mode, modelist, mode_setting, available_modes,
             keep_developer_mode>>

wrkvars == <<worker_active_mode, completions>>

histvars == <<signals, requested, selected, last, sent_current, sent_target>>

covars == <<co_posted, co_started, co_early, co_switched, s1_log>>

bevars == <<configfs_probed, udc_probed, udc_value, gadget_root, udc_attr,
            id_vendor, id_product, gadget_strings, function_dirs, config_links,
            sys_class_udc, mtp_ep0, mtpd_running, init_done,
            be_trace, be_last, be_arg, be_ret, be_fault, id_input>>

allprog == <<ctlvars, envvars, cfgvars, wrkvars, histvars, quiescent, covars>>

allctl == <<allprog, bevars>>

vars == <<obsvars, allctl>>

(***************************************************************************)
(* cable_state_t                                                           *)
(***************************************************************************)
CABLE_STATE_UNKNOWN == "unknown"
CABLE_STATE_DISCONNECTED == "disconnected"
CABLE_STATE_CHARGER_CONNECTED == "charger_connected"
CABLE_STATE_PC_CONNECTED == "pc_connected"

cable_state_t == {CABLE_STATE_UNKNOWN, CABLE_STATE_DISCONNECTED,
                  CABLE_STATE_CHARGER_CONNECTED, CABLE_STATE_PC_CONNECTED}

(***************************************************************************)
(* udev properties of a power-supply change event.  ABSENT stands for a    *)
(* property udev_device_get_property_value() returns NULL for.             *)
(***************************************************************************)
ABSENT == "<absent>"

\* Ids of timeout sources wrap around after this many.
MaxSourceId == 2

PresentValues == {ABSENT, "0", "1"}

TypeValues == {ABSENT, "USB", "USB_CDP", "USB_DCP", "USB_HVDCP", "USB_HVDCP_3",
               "USB_FLOAT", "Unknown", "Mains"}

UdevProperties == [present : PresentValues, online : PresentValues,
                   real_type : TypeValues, type : TypeValues]

NoProperties == [present |-> ABSENT, online |-> ABSENT,
                 real_type |-> ABSENT, type |-> ABSENT]

\* The properties tried for the device when the observer restarts: one
\* presence and one type property, which reach every cable state.
RestartProperties == [present : {"0", "1"}, online : {ABSENT},
                      real_type : {ABSENT}, type : TypeValues]

(***************************************************************************)
(* The observer's state as a record, so that the C functions, which call   *)
(* each other, compose.  out collects the downstream notifications.        *)
(***************************************************************************)
Obs == [current |-> cable_state_current, active |-> cable_state_active,
        previous |-> cable_state_previous, timer |-> cable_state_timer_id,
        sources |-> timer_sources, last_id |-> timer_last_id,
        watch |-> umudev_watch_id, in_cleanup |-> umudev_in_cleanup,
        wakelock |-> wakelock_held, trace |-> <<>>,
        sysname |-> umudev_sysname, out |-> <<>>]

\* g_timeout_add: a new timeout source; ids are handed out in turn.
g_timeout_add(o) == (o.last_id % MaxSourceId) + 1

\* g_source_remove(cable_state_timer_id), cable_state_timer_id = 0.
cable_state_stop_timer(o) ==
    IF o.timer # 0
    THEN [o EXCEPT !.sources = @ \ {o.timer}, !.timer = 0]
    ELSE o

cable_state_start_timer(o) ==
    IF o.timer = 0
    THEN [o EXCEPT !.timer = g_timeout_add(o),
                   !.sources = @ \cup {g_timeout_add(o)},
                   !.last_id = g_timeout_add(o)]
    ELSE o

\* A mutation of cable_state_changed: the connect is notified first.
cable_state_changed_connectfirst(o) ==
    LET d == IF o.previous = CABLE_STATE_CHARGER_CONNECTED
             THEN <<<<"charger", FALSE>>>>
             ELSE IF o.previous = CABLE_STATE_PC_CONNECTED
             THEN <<<<"usb", FALSE>>>>
             ELSE <<>>
        c == IF o.active = CABLE_STATE_CHARGER_CONNECTED
             THEN <<<<"charger", TRUE>>>>
             ELSE IF o.active = CABLE_STATE_PC_CONNECTED
             THEN <<<<"usb", TRUE>>>>
             ELSE <<>>
    IN  [o EXCEPT !.out = o.out \o c \o d]

\* Disconnect of the previous kind first, connect of the active kind second.
cable_state_changed(o) ==
    LET d == IF o.previous = CABLE_STATE_CHARGER_CONNECTED
             THEN <<<<"charger", FALSE>>>>
             ELSE IF o.previous = CABLE_STATE_PC_CONNECTED
             THEN <<<<"usb", FALSE>>>>
             ELSE <<>>
        c == IF o.active = CABLE_STATE_CHARGER_CONNECTED
             THEN <<<<"charger", TRUE>>>>
             ELSE IF o.active = CABLE_STATE_PC_CONNECTED
             THEN <<<<"usb", TRUE>>>>
             ELSE <<>>
    IN  [o EXCEPT !.out = o.out \o d \o c]

\* A mutation of cable_state_set: a scheduled transfer is left scheduled.
cable_state_set_keeptimer(o, state) ==
    IF o.active = state
    THEN o
    ELSE cable_state_changed([o EXCEPT !.previous = o.active,
                                       !.active = state,
                                       !.trace = Append(@, "change")])

cable_state_set(o, state) ==
    LET s == cable_state_stop_timer(o)
    IN  IF s.active = state
        THEN s
        ELSE cable_state_changed([s EXCEPT !.previous = s.active,
                                           !.active = state,
                                           !.trace = Append(@, "change")])

\* A mutation of cable_state_from_udev: every report is applied at once.
cable_state_from_udev_nodelay(o, curr) ==
    LET n == [o EXCEPT !.current = curr]
    IN  IF o.current = curr THEN n ELSE cable_state_set(n, curr)

\* A mutation of cable_state_from_udev: a repeated PcConnected report
\* schedules the delayed transfer anew.
cable_state_from_udev_rearm(o, curr) ==
    LET prev == o.current
        n == [o EXCEPT !.current = curr]
    IN  IF prev = curr
        THEN IF curr = CABLE_STATE_PC_CONNECTED /\ n.timer # 0
             THEN cable_state_start_timer(cable_state_stop_timer(n))
             ELSE n
        ELSE IF curr = CABLE_STATE_PC_CONNECTED /\ prev # CABLE_STATE_UNKNOWN
             THEN cable_state_start_timer(n)
             ELSE cable_state_set(n, curr)

cable_state_from_udev(o, curr) ==
    LET prev == o.current
        n == [o EXCEPT !.current = curr]
    IN  IF prev = curr
        THEN n
        ELSE IF curr = CABLE_STATE_PC_CONNECTED /\ prev # CABLE_STATE_UNKNOWN
             THEN cable_state_start_timer(n)
             ELSE cable_state_set(n, curr)

\* Returning FALSE destroys the timeout source that fired.
cable_state_timer_cb(o) ==
    cable_state_set([o EXCEPT !.timer = 0, !.sources = @ \ {o.timer}], o.current)

(***************************************************************************)
(* umudev_parse_properties: the cable state a set of properties reports.   *)
(***************************************************************************)
PowerSupplyPresent(p) == IF p.present # ABSENT THEN p.present ELSE p.online

PowerSupplyConnected(p) ==
    PowerSupplyPresent(p) # ABSENT /\ PowerSupplyPresent(p) = "1"

PowerSupplyType(p) == IF p.real_type # ABSENT THEN p.real_type ELSE p.type

\* A mutation of umudev_parse_properties: POWER_SUPPLY_ONLINE is preferred
\* to POWER_SUPPLY_PRESENT.
umudev_parse_properties_onlinefirst(p) ==
    LET present == IF p.online # ABSENT THEN p.online ELSE p.present
        t == PowerSupplyType(p)
    IN  IF present # "1" THEN CABLE_STATE_DISCONNECTED
        ELSE IF t \in {ABSENT, "USB", "USB_CDP"} THEN CABLE_STATE_PC_CONNECTED
        ELSE IF t \in {"USB_DCP", "USB_HVDCP", "USB_HVDCP_3", "USB_FLOAT"}
        THEN CABLE_STATE_CHARGER_CONNECTED
        ELSE CABLE_STATE_DISCONNECTED

umudev_parse_properties(p) ==
    IF ~PowerSupplyConnected(p)
    THEN CABLE_STATE_DISCONNECTED
    ELSE LET t == PowerSupplyType(p)
         IN  IF t = ABSENT THEN CABLE_STATE_PC_CONNECTED
             ELSE IF t \in {"USB", "USB_CDP"} THEN CABLE_STATE_PC_CONNECTED
             ELSE IF t \in {"USB_DCP", "USB_HVDCP", "USB_HVDCP_3"}
                  THEN CABLE_STATE_CHARGER_CONNECTED
             ELSE IF t = "USB_FLOAT" THEN CABLE_STATE_CHARGER_CONNECTED
             ELSE IF t = "Unknown" THEN CABLE_STATE_DISCONNECTED
             ELSE CABLE_STATE_DISCONNECTED

(***************************************************************************)
(* History of the reports, kept for the debounce properties.               *)
(***************************************************************************)
\* 1: Disconnected reported; 2: then PcConnected, timer not fired;
\* 3: then Disconnected again, timer not fired.
NextDbPhase(r) ==
    IF r = CABLE_STATE_DISCONNECTED
    THEN (IF dbPhase = 2 THEN 3 ELSE 1)
    ELSE IF r = CABLE_STATE_PC_CONNECTED /\ dbPhase \in {1, 2}
    THEN 2
    ELSE 0

\* 1: an event of type USB was seen; 2: then an event of type USB_DCP.
NextMisPhase(p) ==
    IF PowerSupplyConnected(p) /\ PowerSupplyType(p) = "USB"
    THEN 1
    ELSE IF misPhase = 1 /\ PowerSupplyConnected(p) /\ PowerSupplyType(p) = "USB_DCP"
    THEN 2
    ELSE 0

(***************************************************************************)
(* umudev_init / umudev_quit / io watch callbacks                          *)
(***************************************************************************)
umudev_quit(o) ==
    cable_state_stop_timer([o EXCEPT !.in_cleanup = TRUE, !.watch = 0,
                                     !.sysname = 0])

\* The score of one enumerated device; a device whose name contains
\* "battery" or "BAT" scores 0.
umudev_score_as_power_supply(d) ==
    IF d.name.battery
    THEN 0
    ELSE (IF d.name.usb THEN 10 ELSE 0)
         + (IF d.name.charger THEN 5 ELSE 0)
         + (IF d.props.present # ABSENT THEN 5 ELSE 0)
         + (IF d.props.online # ABSENT THEN 10 ELSE 0)
         + (IF d.props.type # ABSENT THEN 10 ELSE 0)

\* A mutation of the enumeration loop: a later device of equal score wins.
RECURSIVE umudev_guess_device_lasttie(_, _, _, _)
umudev_guess_device_lasttie(devs, i, current_name, current_score) ==
    IF i > Len(devs)
    THEN [name |-> current_name, score |-> current_score]
    ELSE LET score == umudev_score_as_power_supply(devs[i])
         IN  IF current_score <= score
             THEN umudev_guess_device_lasttie(devs, i + 1, i, score)
             ELSE umudev_guess_device_lasttie(devs, i + 1, current_name,
                                              current_score)

\* The udev_list_entry_foreach loop of umudev_init from entry i on.
RECURSIVE umudev_guess_device(_, _, _, _)
umudev_guess_device(devs, i, current_name, current_score) ==
    IF i > Len(devs)
    THEN [name |-> current_name, score |-> current_score]
    ELSE LET score == umudev_score_as_power_supply(devs[i])
         IN  IF current_score < score
             THEN umudev_guess_device(devs, i + 1, i, score)
             ELSE umudev_guess_device(devs, i + 1, current_name,
                                      current_score)

\* ok: the power-supply device was found and the monitor could be set up;
\* p: the properties of the device at that moment.
umudev_init(o, ok, p) ==
    LET n == [o EXCEPT !.in_cleanup = FALSE]
    IN  IF ok
        THEN cable_state_from_udev([n EXCEPT !.watch = 1],
                                   umudev_parse_properties(p))
        ELSE umudev_quit(n)

\* umudev_init when the configured device path does not exist: the device
\* is guessed among devs, the enumerated power_supply devices.  opens: the
\* guessed device can be opened; monitor: the udev monitor and the io watch
\* could be set up.
umudev_init_guess(o, devs, opens, monitor) ==
    LET g == umudev_guess_device(devs, 1, 0, 0)
        dev == IF g.score > 0 /\ opens THEN g.name ELSE 0
    IN  IF dev = 0
        THEN umudev_init(o, FALSE, NoProperties)
        ELSE umudev_init([o EXCEPT !.sysname = dev], monitor,
                         devs[dev].props)

\* Destroy notification of the io watch: restart unless cleaning up.
umudev_io_error_cb(o, ok, p) ==
    IF ~o.in_cleanup THEN umudev_init(umudev_quit(o), ok, p) ELSE o

\* The process-input wake-lock: one more hold, one hold less.
usbmoded_acquire_wakelock(o) ==
    [o EXCEPT !.wakelock = @ + 1, !.trace = Append(@, "acquire")]

usbmoded_release_wakelock(o) ==
    [o EXCEPT !.wakelock = IF @ > 0 THEN @ - 1 ELSE 0,
              !.trace = Append(@, "release")]

\* A mutation of umudev_io_input_cb: a failed receive returns at once.
umudev_io_input_cb_bail(o, received, ours, change, err, p) ==
    LET a == usbmoded_acquire_wakelock(o)
        h == IF received /\ ours /\ change
             THEN cable_state_from_udev(a, umudev_parse_properties(p))
             ELSE a
        continue_watching == received /\ ~err
    IN  IF ~received
        THEN [a EXCEPT !.watch = 0]
        ELSE usbmoded_release_wakelock(
                 IF ~continue_watching /\ h.watch # 0
                 THEN [h EXCEPT !.watch = 0]
                 ELSE h)

\* The io watch callback.  received: udev_monitor_receive_device() gave a
\* device; ours: it is the watched device; change: its action is "change";
\* err: the condition has G_IO_ERR, G_IO_HUP or G_IO_NVAL set.
umudev_io_input_cb(o, received, ours, change, err, p) ==
    LET a == usbmoded_acquire_wakelock(o)
        h == IF received /\ ours /\ change
             THEN cable_state_from_udev(a, umudev_parse_properties(p))
             ELSE a
        continue_watching == received /\ ~err
    IN  usbmoded_release_wakelock(
            IF ~continue_watching /\ h.watch # 0
            THEN [h EXCEPT !.watch = 0]
            ELSE h)

\* What each kind was last notified as, after the first i calls of out.
Delivered(d, out, i) ==
    [k \in {"charger", "usb"} |->
        LET calls == {j \in 1..i : out[j][1] = k}
        IN  IF calls = {}
            THEN d[k]
            ELSE out[CHOOSE j \in calls : \A h \in calls : h <= j][2]]

SetObs(n) ==
    /\ downstream' = Delivered(downstream, n.out, Len(n.out))
    /\ cable_state_current' = n.current
    /\ cable_state_active' = n.active
    /\ cable_state_previous' = n.previous
    /\ cable_state_timer_id' = n.timer
    /\ timer_sources' = n.sources
    /\ timer_last_id' = n.last_id
    /\ umudev_watch_id' = n.watch
    /\ umudev_in_cleanup' = n.in_cleanup
    /\ notified' = n.out
    /\ udev_props' = udev_props
    /\ power_supplies' = power_supplies
    /\ umudev_sysname' = n.sysname
    /\ wakelock_held' = n.wakelock
    /\ wl_trace' = n.trace

\* History bookkeeping for a step in which properties p were evaluated.
Reported(p) ==
    /\ dbPhase' = NextDbPhase(umudev_parse_properties(p))
    /\ misPhase' = NextMisPhase(p)
    /\ misPre' = IF PowerSupplyConnected(p) /\ PowerSupplyType(p) = "USB"
                 THEN (cable_state_current # CABLE_STATE_UNKNOWN
                       /\ cable_state_active # CABLE_STATE_PC_CONNECTED)
                 ELSE misPre

(***************************************************************************)
(* Observer steps                                                          *)
(***************************************************************************)
\* Daemon startup calls umudev_init.
UmudevInit ==
    /\ UNCHANGED allctl
    /\ obs_last' = "umudev_init"
    /\ umudev_watch_id = 0
    /\ ~umudev_in_cleanup
    /\ \E ok \in BOOLEAN, p \in UdevProperties :
          /\ SetObs(umudev_init(Obs, ok, p))
          /\ IF ok THEN Reported(p) ELSE UNCHANGED <<dbPhase, misPhase, misPre>>

\* A change event of the watched device arrives.
UdevChange ==
    /\ UNCHANGED allctl
    /\ obs_last' = "udev_change"
    /\ umudev_watch_id # 0
    /\ \E p \in UdevProperties :
          /\ SetObs(umudev_io_input_cb(Obs, TRUE, TRUE, TRUE, FALSE, p))
          /\ Reported(p)

\* An event of another device, or an event that is not a change.
UdevOther ==
    /\ UNCHANGED allctl
    /\ obs_last' = "udev_other"
    /\ umudev_watch_id # 0
    /\ \E ours \in BOOLEAN, change \in BOOLEAN :
          /\ ~(ours /\ change)
          /\ SetObs(umudev_io_input_cb(Obs, TRUE, ours, change, FALSE, NoProperties))
    /\ UNCHANGED <<dbPhase, misPhase, misPre>>

\* Reading the event source fails: the callback stops watching, the watch
\* is destroyed and its destroy notification restarts the observer.
UdevIoFailure ==
    /\ UNCHANGED allctl
    /\ obs_last' = "io_failure"
    /\ umudev_watch_id # 0
    /\ \E received \in BOOLEAN, err \in BOOLEAN, ok \in BOOLEAN,
          p \in RestartProperties :
          /\ ~received \/ err
          /\ SetObs(umudev_io_error_cb(
                  umudev_io_input_cb(Obs, received, FALSE, FALSE, err, p),
                  ok, p))
          /\ IF ok THEN Reported(p) ELSE UNCHANGED <<dbPhase, misPhase, misPre>>

\* cable_state_timer_cb: the 1500 ms timer expires.
TimerFire ==
    /\ UNCHANGED allctl
    /\ obs_last' = "timer"
    /\ cable_state_timer_id # 0
    /\ SetObs(cable_state_timer_cb(Obs))
    /\ dbPhase' = 0
    /\ misPhase' = 0
    /\ UNCHANGED misPre

ObsInit ==
    /\ udev_props = NoProperties
    /\ power_supplies = <<>>
    /\ downstream = [k \in {"charger", "usb"} |-> FALSE]
    /\ umudev_sysname = 0
    /\ cable_state_current = CABLE_STATE_UNKNOWN
    /\ cable_state_active = CABLE_STATE_UNKNOWN
    /\ cable_state_previous = CABLE_STATE_UNKNOWN
    /\ cable_state_timer_id = 0
    /\ timer_sources = {}
    /\ timer_last_id = 0
    /\ umudev_watch_id = 0
    /\ umudev_in_cleanup = FALSE
    /\ notified = <<>>
    /\ obs_last = "init"
    /\ wakelock_held = 0
    /\ wl_trace = <<>>
    /\ dbPhase = 0
    /\ misPhase = 0
    /\ misPre = FALSE

(***************************************************************************)
(* Mode names (usb_moded-modes.h) and user ids                             *)
(***************************************************************************)
NULL == "<null>"

MODE_UNDEFINED == "undefined"
MODE_BUSY == "busy"
MODE_ASK == "ask"
MODE_CHARGER == "charger"
MODE_CHARGING_FALLBACK == "charging_fallback"
MODE_CHARGING == "charging_only"
MODE_DEVELOPER == "developer_mode"
MODE_MTP == "mtp_mode"

UID_UNKNOWN == "uid_unknown"

KnownUsers == {"uid_100000"}

Users == KnownUsers \cup {UID_UNKNOWN}

\* Modes a mode setting can name, and modes a D-Bus client can request.
ConfigModes == {MODE_ASK, MODE_MTP, MODE_DEVELOPER}

RequestModes == {MODE_MTP, MODE_DEVELOPER, MODE_CHARGING}

AvailableLists == {<<>>, <<MODE_MTP>>, <<MODE_MTP, MODE_DEVELOPER>>}

ModeLists == {<<>>, <<MODE_MTP, MODE_DEVELOPER>>}

\* Internal modes that are not exposed map to their user-visible synonym.
common_map_mode_to_external(internal_mode) ==
    IF internal_mode = MODE_CHARGING_FALLBACK THEN MODE_CHARGING ELSE internal_mode

(***************************************************************************)
(* The controller's state as a record.  user and can_export are what       *)
(* control_get_current_user() and usbmoded_can_export() return during the  *)
(* handler; sig and req collect the signals sent and the modes passed to   *)
(* control_set_usb_mode; sel records a control_select_usb_mode_ex call.    *)
(***************************************************************************)
Ctl == [internal |-> control_internal_mode, target |-> control_target_mode,
        external |-> control_external_mode, cable |-> control_cable_state,
        user_for_mode |-> control_user_for_mode,
        worker_requested |-> worker_requested_mode,
        user |-> current_user, can_export |-> can_export,
        sig |-> <<>>, req |-> <<>>, sel |-> "none"]

control_get_external_mode(c) ==
    IF c.external = NULL THEN MODE_UNDEFINED ELSE c.external

control_get_target_mode(c) ==
    IF c.target = NULL THEN MODE_UNDEFINED ELSE c.target

control_set_user_for_mode(c, uid) == [c EXCEPT !.user_for_mode = uid]

\* A mutation of worker_request_hardware_mode: a request that was not
\* picked up yet is kept, the newer one is dropped.
worker_request_hardware_mode_keepfirst(c, mode) ==
    IF c.worker_requested = NULL
    THEN [c EXCEPT !.worker_requested = mode]
    ELSE c

\* The newest request replaces a request that was not picked up yet.
worker_request_hardware_mode(c, mode) == [c EXCEPT !.worker_requested = mode]

\* A mutation of control_set_target_mode: the signal is sent also when the
\* mode is the stored one.
control_set_target_mode_always(c, mode) ==
    [c EXCEPT !.target = mode,
              !.sig = Append(@, <<"target_state", mode>>)]

control_set_target_mode(c, mode) ==
    IF c.target = mode
    THEN c
    ELSE [c EXCEPT !.target = mode,
                   !.sig = Append(@, <<"target_state", mode>>)]

\* A mutation of control_set_external_mode: the target mode is not
\* synchronized when a stable state is reached.
control_set_external_mode_nosync(c, mode) ==
    IF c.external = mode
    THEN c
    ELSE LET e == IF mode = MODE_ASK
                  THEN <<<<"event", "connected_dialog_show">>>>
                  ELSE <<>>
         IN  [c EXCEPT !.external = mode,
                       !.sig = @ \o e \o <<<<"current_state", mode>>>>]

\* A mutation of control_set_external_mode: the dialog event is sent after
\* the current_state signal.
control_set_external_mode_eventlast(c, mode) ==
    IF c.external = mode
    THEN c
    ELSE LET e == IF mode = MODE_ASK
                  THEN <<<<"event", "connected_dialog_show">>>>
                  ELSE <<>>
             a == [c EXCEPT !.external = mode,
                            !.sig = @ \o <<<<"current_state", mode>>>> \o e]
         IN  IF mode # MODE_BUSY THEN control_set_target_mode(a, mode) ELSE a

control_set_external_mode(c, mode) ==
    IF c.external = mode
    THEN c
    ELSE LET e == IF mode = MODE_ASK
                  THEN <<<<"event", "connected_dialog_show">>>>
                  ELSE <<>>
             a == [c EXCEPT !.external = mode,
                            !.sig = @ \o e \o <<<<"current_state", mode>>>>]
         IN  IF mode # MODE_BUSY THEN control_set_target_mode(a, mode) ELSE a

control_update_external_mode(c) ==
    control_set_external_mode(c, common_map_mode_to_external(c.internal))

\* A mutation of control_set_usb_mode: busy is declared before the target
\* mode is updated.
control_set_usb_mode_busyfirst(c, mode) ==
    LET r == [c EXCEPT !.req = Append(@, mode)]
    IN  IF c.internal = mode
        THEN r
        ELSE worker_request_hardware_mode(
                 control_set_user_for_mode(
                     control_set_target_mode(
                         control_set_external_mode([r EXCEPT !.internal = mode],
                                                   MODE_BUSY),
                         mode),
                     UID_UNKNOWN),
                 mode)

\* A mutation of control_set_usb_mode: the mode owner is kept.
control_set_usb_mode_keepowner(c, mode) ==
    LET r == [c EXCEPT !.req = Append(@, mode)]
    IN  IF c.internal = mode
        THEN r
        ELSE worker_request_hardware_mode(
                 control_set_external_mode(
                     control_set_target_mode([r EXCEPT !.internal = mode], mode),
                     MODE_BUSY),
                 mode)

\* A mutation of control_set_usb_mode: no early exit for the current mode.
control_set_usb_mode_always(c, mode) ==
    worker_request_hardware_mode(
        control_set_user_for_mode(
            control_set_external_mode(
                control_set_target_mode([c EXCEPT !.req = Append(@, mode),
                                                  !.internal = mode], mode),
                MODE_BUSY),
            UID_UNKNOWN),
        mode)

control_set_usb_mode(c, mode) ==
    LET r == [c EXCEPT !.req = Append(@, mode)]
    IN  IF c.internal = mode
        THEN r
        ELSE worker_request_hardware_mode(
                 control_set_user_for_mode(
                     control_set_external_mode(
                         control_set_target_mode([r EXCEPT !.internal = mode], mode),
                         MODE_BUSY),
                     UID_UNKNOWN),
                 mode)

\* A mutation of control_mode_switched: the reported mode is not recorded.
control_mode_switched_keep(c, mode) ==
    control_set_user_for_mode(control_update_external_mode(c), c.user)

control_mode_switched(c, mode) ==
    LET a == IF c.internal # mode THEN [c EXCEPT !.internal = mode] ELSE c
    IN  control_set_user_for_mode(control_update_external_mode(a), c.user)

\* config_get_mode_setting((current_user == UID_UNKNOWN) ? 0 : current_user):
\* the global slot is kept under UID_UNKNOWN.
config_get_mode_setting(uid) == mode_setting[uid]

\* A mutation of ResolveAsk: a single available mode is not used in place
\* of ask.
ResolveAsk_keepask(c) ==
    LET mode_to_set == config_get_mode_setting(c.user)
    IN  IF mode_to_set = MODE_ASK /\ c.user = UID_UNKNOWN
        THEN NULL
        ELSE mode_to_set

\* The mode the selector wants after resolving ask; NULL when it has none.
ResolveAsk(c) ==
    LET mode_to_set == config_get_mode_setting(c.user)
    IN  IF mode_to_set = MODE_ASK
        THEN IF c.user = UID_UNKNOWN
             THEN NULL
             ELSE IF Len(available_modes) = 1
                  THEN available_modes[1]
                  ELSE mode_to_set
        ELSE mode_to_set

\* A mutation of control_select_usb_mode_ex: the export permission is not
\* consulted.
control_select_usb_mode_ex_noexport(c, user_changed) ==
    LET s == [c EXCEPT !.sel = IF user_changed THEN "user_changed" ELSE "plain"]
    IN  IF rescue_mode
        THEN control_set_usb_mode(s, MODE_DEVELOPER)
        ELSE IF diag_mode
        THEN IF modelist = <<>>
             THEN s
             ELSE control_set_usb_mode(s, modelist[1])
        ELSE IF ResolveAsk(s) # NULL /\ ~user_changed
             THEN control_set_usb_mode(s, ResolveAsk(s))
             ELSE control_set_usb_mode(s, MODE_CHARGING_FALLBACK)

\* A mutation of control_select_usb_mode_ex: the diagnostic mode is entered
\* only when export is permitted.
control_select_usb_mode_ex_diagexport(c, user_changed) ==
    LET s == [c EXCEPT !.sel = IF user_changed THEN "user_changed" ELSE "plain"]
    IN  IF rescue_mode
        THEN control_set_usb_mode(s, MODE_DEVELOPER)
        ELSE IF diag_mode /\ s.can_export
        THEN IF modelist = <<>>
             THEN s
             ELSE control_set_usb_mode(s, modelist[1])
        ELSE IF ResolveAsk(s) # NULL /\ s.can_export /\ ~user_changed
             THEN control_set_usb_mode(s, ResolveAsk(s))
             ELSE control_set_usb_mode(s, MODE_CHARGING_FALLBACK)

control_select_usb_mode_ex(c, user_changed) ==
    LET s == [c EXCEPT !.sel = IF user_changed THEN "user_changed" ELSE "plain"]
    IN  IF rescue_mode
        THEN control_set_usb_mode(s, MODE_DEVELOPER)
        ELSE IF diag_mode
        THEN IF modelist = <<>>
             THEN s
             ELSE control_set_usb_mode(s, modelist[1])
        ELSE IF ResolveAsk(s) # NULL /\ s.can_export /\ ~user_changed
             THEN control_set_usb_mode(s, ResolveAsk(s))
             ELSE control_set_usb_mode(s, MODE_CHARGING_FALLBACK)

control_select_usb_mode(c) == control_select_usb_mode_ex(c, FALSE)

\* A mutation of control_set_cable_state: no early exit for the stored state.
control_set_cable_state_always(c, cable_state) ==
    LET n == [c EXCEPT !.cable = cable_state]
    IN  IF cable_state = CABLE_STATE_CHARGER_CONNECTED
        THEN control_set_usb_mode(n, MODE_CHARGER)
        ELSE IF cable_state = CABLE_STATE_PC_CONNECTED
        THEN control_select_usb_mode(n)
        ELSE control_set_usb_mode(n, MODE_UNDEFINED)

control_set_cable_state(c, cable_state) ==
    LET n == [c EXCEPT !.cable = cable_state]
    IN  IF cable_state = c.cable
        THEN n
        ELSE IF cable_state = CABLE_STATE_CHARGER_CONNECTED
             THEN control_set_usb_mode(n, MODE_CHARGER)
             ELSE IF cable_state = CABLE_STATE_PC_CONNECTED
             THEN control_select_usb_mode(n)
             ELSE control_set_usb_mode(n, MODE_UNDEFINED)

control_user_changed(c) ==
    IF c.cable # CABLE_STATE_PC_CONNECTED
    THEN c
    ELSE IF c.internal = MODE_DEVELOPER /\ keep_developer_mode
    THEN c
    ELSE IF c.user # c.user_for_mode
    THEN control_select_usb_mode_ex(c, TRUE)
    ELSE c

\* A mutation of control_rethink_usb_charging_fallback: the current mode
\* is not consulted.
control_rethink_usb_charging_fallback_anymode(c) ==
    IF c.cable # CABLE_STATE_PC_CONNECTED
    THEN c
    ELSE IF ~c.can_export
    THEN c
    ELSE control_select_usb_mode(c)

control_rethink_usb_charging_fallback(c) ==
    IF c.cable # CABLE_STATE_PC_CONNECTED
    THEN c
    ELSE IF c.internal # MODE_UNDEFINED /\ c.internal # MODE_CHARGING_FALLBACK
    THEN c
    ELSE IF ~c.can_export
    THEN c
    ELSE control_select_usb_mode(c)

(***************************************************************************)
(* Worker: what a mode switch reports.  The requested mode when every      *)
(* backend step succeeds; charging_fallback when a step fails and the      *)
(* fallback can be reached; undefined when that fails too.                 *)
(***************************************************************************)
worker_switch_to_mode(mode, ok, fallback_ok) ==
    IF ok THEN mode
    ELSE IF fallback_ok THEN MODE_CHARGING_FALLBACK
    ELSE MODE_UNDEFINED

(***************************************************************************)
(* Controller and worker steps.  Each handler comes as a core, which says  *)
(* what the program does, and as the step of a specification.  The main    *)
(* loop drains the completion channel between event-source polls, so a     *)
(* handler of the main loop runs only when no completion is waiting.       *)
(***************************************************************************)
\* The value of the latest signal of a kind among sigs, or prev when there
\* is none.
LatestSignal(sigs, kind, prev) ==
    LET of_kind == SelectSeq(sigs, LAMBDA x : x[1] = kind)
    IN  IF of_kind = <<>> THEN prev ELSE of_kind[Len(of_kind)][2]

SetCtl(n, op) ==
    /\ control_internal_mode' = n.internal
    /\ control_target_mode' = n.target
    /\ control_external_mode' = n.external
    /\ control_cable_state' = n.cable
    /\ control_user_for_mode' = n.user_for_mode
    /\ worker_requested_mode' = n.worker_requested
    /\ current_user' = n.user
    /\ can_export' = n.can_export
    /\ signals' = n.sig
    /\ sent_current' = LatestSignal(n.sig, "current_state", sent_current)
    /\ sent_target' = LatestSignal(n.sig, "target_state", sent_target)
    /\ requested' = n.req
    /\ selected' = n.sel
    /\ last' = op

\* usbmoded_set_usb_connected / usbmoded_set_charger_connected reach
\* control_set_cable_state.
CableStateCore(states) ==
    /\ ~quiescent
    /\ completions = <<>>
    /\ \E s \in states :
          SetCtl(control_set_cable_state(Ctl, s), "set_cable_state")
    /\ UNCHANGED <<cfgvars, bevars, wrkvars, quiescent>>

\* A set-mode request from the bus, after its permission check.
RequestModeCore(m) ==
    /\ ~quiescent
    /\ completions = <<>>
    /\ SetCtl(control_set_usb_mode(Ctl, m), "set_usb_mode")
    /\ UNCHANGED <<cfgvars, bevars, wrkvars, quiescent>>

\* The active user of the seat changes; the daemon is told later.
UserSwitchCore ==
    /\ ~quiescent
    /\ completions = <<>>
    /\ \E u \in Users :
          /\ u # current_user
          /\ SetCtl([Ctl EXCEPT !.user = u], "user_switch")
    /\ UNCHANGED <<cfgvars, bevars, wrkvars, quiescent>>

\* The user-change notification.
UserChangedCore ==
    /\ ~quiescent
    /\ completions = <<>>
    /\ SetCtl(control_user_changed(Ctl), "user_changed")
    /\ UNCHANGED <<cfgvars, bevars, wrkvars, quiescent>>

\* Device lock or device state changes what may be exported.
RethinkCore ==
    /\ ~quiescent
    /\ completions = <<>>
    /\ \E b \in BOOLEAN :
          SetCtl(control_rethink_usb_charging_fallback([Ctl EXCEPT !.can_export = b]),
                 "rethink")
    /\ UNCHANGED <<cfgvars, bevars, wrkvars, quiescent>>

\* The worker picks up the latest request.
WorkerStartCore ==
    /\ worker_active_mode = NULL
    /\ worker_requested_mode # NULL
    /\ worker_active_mode' = worker_requested_mode
    /\ worker_requested_mode' = NULL
    /\ signals' = <<>>
    /\ requested' = <<>>
    /\ selected' = "none"
    /\ last' = "worker_start"
    /\ UNCHANGED <<sent_current, sent_target>>
    /\ UNCHANGED <<control_internal_mode, control_target_mode, control_external_mode,
                   control_cable_state, control_user_for_mode, envvars, cfgvars, bevars,
                   completions, quiescent>>

\* The worker finishes and posts the completion.
WorkerFinishCore(outcomes) ==
    /\ worker_active_mode # NULL
    /\ \E ok \in outcomes, fallback_ok \in BOOLEAN :
          completions' = Append(completions,
                                worker_switch_to_mode(worker_active_mode, ok, fallback_ok))
    /\ worker_active_mode' = NULL
    /\ signals' = <<>>
    /\ requested' = <<>>
    /\ selected' = "none"
    /\ last' = "worker_finish"
    /\ UNCHANGED <<sent_current, sent_target>>
    /\ UNCHANGED <<ctlvars, envvars, cfgvars, bevars, quiescent>>

\* The main loop takes a completion and calls control_mode_switched.
ModeSwitchedCore ==
    /\ completions # <<>>
    /\ SetCtl(control_mode_switched(Ctl, Head(completions)), "mode_switched")
    /\ completions' = Tail(completions)
    /\ UNCHANGED <<cfgvars, bevars, worker_active_mode, quiescent>>

CableState == CableStateCore(cable_state_t) /\ UNCHANGED <<obsvars, covars>>

RequestMode == (\E m \in RequestModes : RequestModeCore(m)) /\ UNCHANGED <<obsvars, covars>>

UserSwitch == UserSwitchCore /\ UNCHANGED <<obsvars, covars>>

UserChanged == UserChangedCore /\ UNCHANGED <<obsvars, covars>>

Rethink == RethinkCore /\ UNCHANGED <<obsvars, covars>>

WorkerStart == WorkerStartCore /\ UNCHANGED <<obsvars, covars>>

WorkerFinish == WorkerFinishCore(BOOLEAN) /\ UNCHANGED <<obsvars, covars>>

ModeSwitched == ModeSwitchedCore /\ UNCHANGED <<obsvars, covars>>

(***************************************************************************)
(* usb_moded-configfs.c: the ConfigFS gadget backend.  Texts are sequences *)
(* of characters, so that parsing and formatting are computed.             *)
(***************************************************************************)
FUNCTION_MASS_STORAGE == "mass_storage.usb0"
FUNCTION_RNDIS == "rndis_bam.rndis"
FUNCTION_MTP == "ffs.mtp"

GadgetFunctions == {FUNCTION_MASS_STORAGE, FUNCTION_RNDIS, FUNCTION_MTP}

\* The order in which readdir() lists the config directory.
FunctionOrder == <<FUNCTION_MASS_STORAGE, FUNCTION_RNDIS, FUNCTION_MTP>>

\* The function names callers pass; NULL is the null pointer.
FunctionNames == {"mass_storage", "rndis", "mtp", "ffs", NULL}

\* The null pointer as an id text.
NullId == <<NULL>>

\* The name of the controller under /sys/class/udc.
UdcName == <<"d", "w", "c", "3">>

\* The attributes as the kernel creates them.
DefaultId == <<"0", "x", "0", "0", "0", "0">>

StringAttributes == {"manufacturer", "product", "serialnumber", "ethaddr", "wceis"}

\* What the configuration and the device give for the gadget attributes.
android_vendor_id == <<"2", "9", "3", "1">>

android_product_id == <<"0", "A", "0", "2">>

ConfiguredStrings ==
    [a \in StringAttributes |-> IF a = "wceis" THEN "1" ELSE "configured " \o a]

\* The product id of the charging configuration.
ChargingProductId == <<"0", "A", "F", "E">>

(***************************************************************************)
(* strtol(id, &end, 16) and snprintf("0x%04x") on character sequences.     *)
(* Numbers are kept as lists of hex digit values, most significant first:  *)
(* unsigned is 32 bits wide, that is 8 digits.                             *)
(***************************************************************************)
IsSpace(c) == c \in {" ", "\t", "\n"}

LowerHex == <<"0", "1", "2", "3", "4", "5", "6", "7", "8", "9",
              "a", "b", "c", "d", "e", "f">>

UpperHex == <<"0", "1", "2", "3", "4", "5", "6", "7", "8", "9",
              "A", "B", "C", "D", "E", "F">>

IsHexDigit(c) == \E i \in 1..16 : c = LowerHex[i] \/ c = UpperHex[i]

DigitValue(c) == (CHOOSE i \in 1..16 : c = LowerHex[i] \/ c = UpperHex[i]) - 1

\* The number of leading characters of s, from position i on, that
\* satisfy Test.
Span(s, i, Test(_)) ==
    CHOOSE n \in 0..(Len(s) - i + 1) :
        /\ \A k \in 0..(n - 1) : Test(s[i + k])
        /\ i + n > Len(s) \/ ~Test(s[i + n])

\* The lowest 8 hex digits of a digit list: the conversion to unsigned.
Low8(ds) ==
    LET n == Len(ds)
    IN  [k \in 1..8 |-> IF n - 8 + k >= 1 THEN ds[n - 8 + k] ELSE 0]

\* Two's complement of an 8 digit number.
RECURSIVE AddOne(_, _)
AddOne(ds, k) ==
    IF k = 0
    THEN ds
    ELSE IF ds[k] = 15
    THEN AddOne([ds EXCEPT ![k] = 0], k - 1)
    ELSE [ds EXCEPT ![k] = @ + 1]

Negate8(ds) == AddOne([k \in 1..8 |-> 15 - ds[k]], 8)

\* strtol: white space, an optional sign, an optional 0x in front of a hex
\* digit, hex digits.  end is the number of characters consumed, 0 when
\* there is no digit; num is the result converted to unsigned.
strtol16(id) ==
    LET ws == Span(id, 1, IsSpace)
        signed == ws + 1 <= Len(id) /\ id[ws + 1] \in {"+", "-"}
        s == IF signed THEN ws + 1 ELSE ws
        prefixed == /\ s + 3 <= Len(id)
                    /\ id[s + 1] = "0"
                    /\ id[s + 2] \in {"x", "X"}
                    /\ IsHexDigit(id[s + 3])
        d == IF prefixed THEN s + 2 ELSE s
        n == Span(id, d + 1, IsHexDigit)
        digits == [k \in 1..n |-> DigitValue(id[d + k])]
        magnitude == Low8(digits)
    IN  [end |-> IF n = 0 THEN 0 ELSE d + n,
         num |-> IF signed /\ id[ws + 1] = "-"
                 THEN Negate8(magnitude)
                 ELSE magnitude]

\* snprintf(str, sizeof str, "0x%04x", num)
FormatId(num) ==
    LET zeros == Span(num, 1, LAMBDA v : v = 0)
        keep == IF 8 - zeros < 4 THEN 4 ELSE 8 - zeros
    IN  <<"0", "x">> \o [k \in 1..keep |-> LowerHex[num[8 - keep + k] + 1]]

\* A mutation of NormalizeId: the number is printed in upper case.
NormalizeId_upper(id) ==
    LET r == strtol16(id)
        num == r.num
        zeros == Span(num, 1, LAMBDA v : v = 0)
        keep == IF 8 - zeros < 4 THEN 4 ELSE 8 - zeros
    IN  IF r.end > 0 /\ r.end = Len(id)
        THEN <<"0", "x">> \o [k \in 1..keep |-> UpperHex[num[8 - keep + k] + 1]]
        ELSE id

\* The text configfs_set_productid and configfs_set_vendorid write for id.
NormalizeId(id) ==
    LET r == strtol16(id)
    IN  IF r.end > 0 /\ r.end = Len(id) THEN FormatId(r.num) ELSE id

\* configfs_strip: white space at the ends goes, white space between words
\* becomes one blank.
RECURSIVE StripWords(_)
StripWords(s) ==
    LET w == Span(s, 1, LAMBDA c : ~IsSpace(c))
        g == Span(s, w + 1, IsSpace)
    IN  IF w + g = Len(s)
        THEN SubSeq(s, 1, w)
        ELSE SubSeq(s, 1, w) \o <<" ">> \o StripWords(SubSeq(s, w + g + 1, Len(s)))

configfs_strip(str) ==
    LET lead == Span(str, 1, IsSpace)
    IN  StripWords(SubSeq(str, lead + 1, Len(str)))

(***************************************************************************)
(* The gadget as a record, so that the C functions compose.  trace lists   *)
(* the system calls made as <<call, object, success>>; ack is the return   *)
(* value of the function that ran last.                                    *)
(***************************************************************************)
Gadget == [root |-> gadget_root, udc |-> udc_attr, vendor |-> id_vendor,
           product |-> id_product, strings |-> gadget_strings,
           dirs |-> function_dirs, links |-> config_links,
           class_udc |-> sys_class_udc, ep0 |-> mtp_ep0,
           mtpd |-> mtpd_running, init_done |-> init_done,
           probed |-> configfs_probed, udc_probed |-> udc_probed,
           udc_value |-> udc_value, trace |-> <<>>, ack |-> FALSE]

\* The faults a call can meet: one system call, on one object or on any.
NoFault == <<"none", "">>

Fails(g, f, call, object) ==
    ~g.root \/ (f[1] = call /\ f[2] \in {object, "*"})

Log(g, call, object, ok) ==
    [g EXCEPT !.trace = Append(@, <<call, object, ok>>), !.ack = ok]

configfs_map_function(func) ==
    CASE func = "mass_storage" -> FUNCTION_MASS_STORAGE
      [] func = "rndis" -> FUNCTION_RNDIS
      [] func = "mtp" -> FUNCTION_MTP
      [] func = "ffs" -> FUNCTION_MTP
      [] OTHER -> func

\* mkdir, where EEXIST counts as success; the path is a directory then.
configfs_register_function(g, function, f) ==
    IF Fails(g, f, "mkdir", function)
    THEN Log(g, "mkdir", function, FALSE)
    ELSE Log([g EXCEPT !.dirs = @ \cup {function}], "mkdir", function, TRUE)

symlink(g, function, f) ==
    IF Fails(g, f, "symlink", function)
    THEN Log(g, "symlink", function, FALSE)
    ELSE Log([g EXCEPT !.links = @ \cup {function}], "symlink", function, TRUE)

unlink(g, function, f) ==
    IF Fails(g, f, "unlink", function)
    THEN Log(g, "unlink", function, FALSE)
    ELSE Log([g EXCEPT !.links = @ \ {function}], "unlink", function, TRUE)

configfs_enable_function(g, function, f) ==
    LET r == configfs_register_function(g, function, f)
    IN  IF ~r.ack
        THEN r
        ELSE IF function \in r.links
        THEN LET u == unlink(r, function, f)
             IN  IF ~u.ack THEN u ELSE symlink(u, function, f)
        ELSE symlink(r, function, f)

configfs_disable_function(g, function, f) ==
    IF function \notin g.links
    THEN [g EXCEPT !.ack = FALSE]
    ELSE unlink(g, function, f)

\* The loop over the directory entries: all links are tried, the result is
\* false when one of them could not be removed.
RECURSIVE DisableEntries(_, _, _, _)
DisableEntries(g, i, ack, f) ==
    IF i > Len(FunctionOrder)
    THEN [g EXCEPT !.ack = ack]
    ELSE IF FunctionOrder[i] \notin g.links
    THEN DisableEntries(g, i + 1, ack, f)
    ELSE LET d == configfs_disable_function(g, FunctionOrder[i], f)
         IN  DisableEntries(d, i + 1, ack /\ d.ack, f)

configfs_disable_all_functions(g, f) ==
    IF Fails(g, f, "opendir", "b.1")
    THEN Log(g, "opendir", "b.1", FALSE)
    ELSE DisableEntries(Log(g, "opendir", "b.1", TRUE), 1, TRUE, f)

configfs_in_use(g) == g.probed > 0

\* A mutation of configfs_probe: the gadget root is looked up every time.
configfs_probe_always(g) ==
    [g EXCEPT !.probed = IF g.root THEN 1 ELSE 0]

configfs_probe(g) ==
    IF g.probed <= 0
    THEN [g EXCEPT !.probed = IF g.root THEN 1 ELSE 0]
    ELSE g

\* The first link in /sys/class/udc, looked up once; value ?: "".
configfs_udc_enable_value(g) ==
    IF ~g.udc_probed
    THEN [g EXCEPT !.udc_probed = TRUE, !.udc_value = g.class_udc]
    ELSE g

configfs_write_file(g, path, text, f) ==
    IF \/ Fails(g, f, "write", path)
       \/ path \in {"ethaddr", "wceis"} /\ FUNCTION_RNDIS \notin g.dirs
    THEN Log(g, "write", path, FALSE)
    ELSE Log(CASE path = "UDC" -> [g EXCEPT !.udc = text]
               [] path = "idVendor" -> [g EXCEPT !.vendor = text]
               [] path = "idProduct" -> [g EXCEPT !.product = text]
               [] OTHER -> [g EXCEPT !.strings[path] = text],
             "write", path, TRUE)

\* What configfs_read_file leaves in the buffer for the UDC attribute:
\* the kernel ends the value with a newline, configfs_strip removes it.
ReadUdc(g) == configfs_strip(g.udc \o <<"\n">>)

\* A mutation of configfs_write_udc: the value is written whatever is read.
configfs_write_udc_always(g, text, f) ==
    IF Fails(g, f, "read", "UDC")
    THEN Log(g, "read", "UDC", FALSE)
    ELSE configfs_write_file(Log(g, "read", "UDC", TRUE), "UDC", text, f)

configfs_write_udc(g, text, f) ==
    IF Fails(g, f, "read", "UDC")
    THEN Log(g, "read", "UDC", FALSE)
    ELSE IF ReadUdc(g) # text
    THEN configfs_write_file(Log(g, "read", "UDC", TRUE), "UDC", text, f)
    ELSE Log(g, "read", "UDC", TRUE)

configfs_set_udc(g, enable, f) ==
    IF enable
    THEN LET v == configfs_udc_enable_value(g)
         IN  configfs_write_udc(v, v.udc_value, f)
    ELSE configfs_write_udc(g, <<>>, f)

\* usbmoded_system("/bin/mount ... -t functionfs mtp /dev/mtp")
MountMtp(g) ==
    IF ~g.ep0 THEN [Log(g, "mount", "mtp", TRUE) EXCEPT !.ep0 = TRUE] ELSE g

\* A mutation of configfs_init_values: attributes are written before the
\* probe result is looked at.
configfs_init_values_eager(g, f) ==
    LET p == configfs_probe(g)
        w == configfs_write_file(p, "idVendor", android_vendor_id, f)
    IN  [w EXCEPT !.ack = configfs_in_use(p)]

configfs_init_values(g, f) ==
    LET p == configfs_probe(g)
        u == configfs_set_udc(p, FALSE, f)
        w1 == configfs_write_file(u, "idVendor", android_vendor_id, f)
        w2 == configfs_write_file(w1, "idProduct", android_product_id, f)
        w3 == configfs_write_file(w2, "manufacturer", ConfiguredStrings["manufacturer"], f)
        w4 == configfs_write_file(w3, "product", ConfiguredStrings["product"], f)
        w5 == configfs_write_file(w4, "serialnumber", ConfiguredStrings["serialnumber"], f)
        r1 == configfs_register_function(w5, FUNCTION_MASS_STORAGE, f)
        r2 == MountMtp(configfs_register_function(r1, FUNCTION_MTP, f))
        r3 == configfs_register_function(r2, FUNCTION_RNDIS, f)
        w6 == configfs_write_file(r3, "ethaddr", ConfiguredStrings["ethaddr"], f)
        w7 == configfs_write_file(w6, "wceis", ConfiguredStrings["wceis"], f)
    IN  IF ~configfs_in_use(p)
        THEN [p EXCEPT !.ack = FALSE]
        ELSE [w7 EXCEPT !.ack = TRUE]

configfs_set_productid(g, id, f) ==
    IF id # NullId /\ configfs_in_use(g)
    THEN configfs_write_file(g, "idProduct", NormalizeId(id), f)
    ELSE [g EXCEPT !.ack = FALSE]

configfs_set_vendorid(g, id, f) ==
    IF id # NullId /\ configfs_in_use(g)
    THEN configfs_write_file(g, "idVendor", NormalizeId(id), f)
    ELSE [g EXCEPT !.ack = FALSE]

\* usbmoded_system("systemctl-user stop|start buteo-mtp.service")
StopMtpd(g) == [Log(g, "mtpd_stop", "buteo-mtp", TRUE) EXCEPT !.mtpd = FALSE]

StartMtpd(g) == [Log(g, "mtpd_start", "buteo-mtp", TRUE) EXCEPT !.mtpd = TRUE]

usbmoded_msleep(g) == Log(g, "msleep", "1500", TRUE)

\* A mutation of configfs_set_function: the links that are there stay.
configfs_set_function_keeplinks(g, func, f) ==
    LET fn == configfs_map_function(func)
        u == configfs_set_udc(g, FALSE, f)
        e == configfs_enable_function(u, fn, f)
    IN  IF func = NULL \/ ~configfs_in_use(g)
        THEN [g EXCEPT !.ack = FALSE]
        ELSE IF ~u.ack THEN u ELSE e

\* A mutation of configfs_set_function: the UDC is disabled last.
configfs_set_function_udclast(g, func, f) ==
    LET fn == configfs_map_function(func)
        d == configfs_disable_all_functions(g, f)
        e == configfs_enable_function(d, fn, f)
        u == configfs_set_udc(e, FALSE, f)
    IN  IF func = NULL \/ ~configfs_in_use(g)
        THEN [g EXCEPT !.ack = FALSE]
        ELSE IF ~d.ack THEN d
        ELSE IF ~e.ack THEN e
        ELSE u

configfs_set_function(g, func, f) ==
    LET fn == configfs_map_function(func)
        s == IF fn # FUNCTION_MTP /\ g.init_done THEN StopMtpd(g) ELSE g
        u == configfs_set_udc(s, FALSE, f)
        d == configfs_disable_all_functions(u, f)
        e == configfs_enable_function(d, fn, f)
    IN  IF func = NULL \/ ~configfs_in_use(g)
        THEN [g EXCEPT !.ack = FALSE]
        ELSE IF ~u.ack THEN u
        ELSE IF ~d.ack THEN d
        ELSE IF ~e.ack THEN e
        ELSE IF fn = FUNCTION_MTP
        THEN [usbmoded_msleep(StartMtpd(e)) EXCEPT !.ack = TRUE]
        ELSE [e EXCEPT !.ack = TRUE]

\* The result of configfs_set_productid("0AFE") is not looked at.
configfs_set_charging_mode(g, f) ==
    LET s == configfs_set_function(g, "mass_storage", f)
        p == configfs_set_productid(s, ChargingProductId, f)
        u == configfs_set_udc(p, TRUE, f)
    IN  IF ~s.ack THEN s ELSE u

SetGadget(n) ==
    LET m == n
    IN  /\ gadget_root' = m.root
        /\ udc_attr' = m.udc
        /\ id_vendor' = m.vendor
        /\ id_product' = m.product
        /\ gadget_strings' = m.strings
        /\ function_dirs' = m.dirs
        /\ config_links' = m.links
        /\ sys_class_udc' = m.class_udc
        /\ mtp_ep0' = m.ep0
        /\ mtpd_running' = m.mtpd
        /\ init_done' = m.init_done
        /\ configfs_probed' = m.probed
        /\ udc_probed' = m.udc_probed
        /\ udc_value' = m.udc_value
        /\ be_trace' = m.trace
        /\ be_ret' = m.ack
        /\ id_input' = id_input

\* The files of a gadget that has just been created.
FreshGadget(g) ==
    [g EXCEPT !.udc = <<>>, !.vendor = DefaultId, !.product = DefaultId,
              !.strings = [a \in StringAttributes |-> ""],
              !.dirs = {}, !.links = {}]

(***************************************************************************)
(* Backend steps.  Each draws the fault it meets.                          *)
(***************************************************************************)
UdcFaults == {NoFault, <<"read", "UDC">>, <<"write", "UDC">>}

IdFaults == {NoFault, <<"write", "idProduct">>, <<"write", "idVendor">>}

LinkFaults == {<<"opendir", "b.1">>, <<"mkdir", "*">>, <<"symlink", "*">>}
              \cup {<<"unlink", fn>> : fn \in GadgetFunctions}

InitFaults == UdcFaults \cup IdFaults \cup {<<"mkdir", "*">>, <<"write", "product">>}

InitValues ==
    /\ UNCHANGED <<obsvars, allprog>>
    /\ be_last' = "init_values"
    /\ be_arg' = ""
    /\ \E f \in InitFaults :
          /\ be_fault' = f
          /\ SetGadget(configfs_init_values(Gadget, f))

\* configfs_init_values when every system call succeeds.
InitValuesOk ==
    /\ UNCHANGED <<obsvars, allprog>>
    /\ be_last' = "init_values"
    /\ be_arg' = ""
    /\ be_fault' = NoFault
    /\ SetGadget(configfs_init_values(Gadget, NoFault))

SetFunction ==
    /\ UNCHANGED <<obsvars, allprog>>
    /\ be_fault' = NoFault
    /\ be_last' = "set_function"
    /\ \E func \in FunctionNames, f \in UdcFaults \cup LinkFaults :
          /\ be_arg' = func
          /\ SetGadget(configfs_set_function(Gadget, func, f))

SetChargingMode ==
    /\ UNCHANGED <<obsvars, allprog>>
    /\ be_fault' = NoFault
    /\ be_last' = "set_charging_mode"
    /\ be_arg' = ""
    /\ \E f \in UdcFaults \cup LinkFaults \cup {<<"write", "idProduct">>} :
          /\ SetGadget(configfs_set_charging_mode(Gadget, f))

SetUdc ==
    /\ UNCHANGED <<obsvars, allprog>>
    /\ be_fault' = NoFault
    /\ be_last' = "set_udc"
    /\ \E enable \in BOOLEAN, f \in UdcFaults :
          /\ be_arg' = IF enable THEN "enable" ELSE "disable"
          /\ SetGadget(configfs_set_udc(Gadget, enable, f))

SetProductId ==
    /\ UNCHANGED <<obsvars, allprog>>
    /\ be_fault' = NoFault
    /\ be_last' = "set_productid"
    /\ be_arg' = ""
    /\ \E f \in {NoFault, <<"write", "idProduct">>} :
          /\ SetGadget(configfs_set_productid(Gadget, id_input, f))

SetVendorId ==
    /\ UNCHANGED <<obsvars, allprog>>
    /\ be_fault' = NoFault
    /\ be_last' = "set_vendorid"
    /\ be_arg' = ""
    /\ \E f \in {NoFault, <<"write", "idVendor">>} :
          /\ SetGadget(configfs_set_vendorid(Gadget, id_input, f))

\* The gadget root is created, or removed with all that is in it.
RootAppears ==
    /\ UNCHANGED <<obsvars, allprog>>
    /\ ~gadget_root
    /\ be_last' = "root_appears"
    /\ be_arg' = ""
    /\ be_fault' = NoFault
    /\ SetGadget([FreshGadget(Gadget) EXCEPT !.root = TRUE])

RootVanishes ==
    /\ UNCHANGED <<obsvars, allprog>>
    /\ gadget_root
    /\ be_last' = "root_vanishes"
    /\ be_arg' = ""
    /\ be_fault' = NoFault
    /\ SetGadget([FreshGadget(Gadget) EXCEPT !.root = FALSE])

\* The state of the backend before any of its functions has run.
GadgetInit ==
    /\ udc_attr = <<>>
    /\ id_vendor = DefaultId
    /\ id_product = DefaultId
    /\ gadget_strings = [a \in StringAttributes |-> ""]
    /\ function_dirs = {}
    /\ mtp_ep0 = FALSE
    /\ mtpd_running = FALSE
    /\ configfs_probed = -1
    /\ udc_probed = FALSE
    /\ udc_value = <<>>
    /\ be_trace = <<>>
    /\ be_last = "init"
    /\ be_arg = ""
    /\ be_ret = FALSE
    /\ be_fault = NoFault

\* The backend as the scenarios without backend steps see it.
BackendIdle ==
    /\ GadgetInit
    /\ gadget_root = TRUE
    /\ config_links = {}
    /\ sys_class_udc = UdcName
    /\ init_done = FALSE
    /\ id_input = NullId

(***************************************************************************)
(* Initial states                                                          *)
(***************************************************************************)
CtlInit ==
    /\ control_internal_mode = NULL
    /\ control_target_mode = NULL
    /\ control_external_mode = NULL
    /\ control_cable_state = CABLE_STATE_UNKNOWN
    /\ control_user_for_mode = UID_UNKNOWN
    /\ worker_requested_mode = NULL
    /\ worker_active_mode = NULL
    /\ completions = <<>>
    /\ signals = <<>>
    /\ requested = <<>>
    /\ selected = "none"
    /\ last = "init"
    /\ sent_current = NULL
    /\ sent_target = NULL
    /\ quiescent = FALSE
    /\ co_posted = <<>>
    /\ co_started = <<>>
    /\ co_early = FALSE
    /\ co_switched = 0
    /\ s1_log = <<>>

\* A normal boot: no rescue or diagnostic mode.
CfgNormal ==
    /\ rescue_mode = FALSE
    /\ diag_mode = FALSE
    /\ modelist = <<MODE_MTP, MODE_DEVELOPER>>
    /\ keep_developer_mode \in BOOLEAN
    /\ mode_setting = [u \in Users |-> IF u = UID_UNKNOWN THEN MODE_DEVELOPER ELSE MODE_ASK]
    /\ available_modes = <<MODE_MTP, MODE_DEVELOPER>>

EnvInit ==
    /\ current_user \in Users
    /\ can_export \in BOOLEAN

CtlNext ==
    \/ CableState
    \/ RequestMode
    \/ UserSwitch
    \/ UserChanged
    \/ Rethink
    \/ WorkerStart
    \/ WorkerFinish
    \/ ModeSwitched

Init == ObsInit /\ CtlInit /\ CfgNormal /\ EnvInit /\ BackendIdle

SpecCtl == Init /\ [][CtlNext]_vars

ObsNext == UmudevInit \/ UdevChange \/ UdevOther \/ UdevIoFailure \/ TimerFire

InitObs ==
    /\ ObsInit /\ CtlInit /\ CfgNormal /\ BackendIdle
    /\ keep_developer_mode = TRUE /\ current_user = UID_UNKNOWN /\ can_export = FALSE

SpecObs == InitObs /\ [][ObsNext]_vars

(***************************************************************************)
(* Coalescing scenario: CoRequests requests for pairwise different modes   *)
(* and no completion delivered before the last of them is made.            *)
(***************************************************************************)
CoRequests == 3

CoModes == RequestModes \cup {MODE_CHARGER}

CoRequest ==
    /\ Len(co_posted) < CoRequests
    /\ \E m \in CoModes :
          /\ \A i \in 1..Len(co_posted) : co_posted[i] # m
          /\ RequestModeCore(m)
          /\ co_posted' = Append(co_posted, m)
    /\ UNCHANGED <<obsvars, co_started, co_early, co_switched, s1_log>>

CoWorkerStart ==
    /\ WorkerStartCore
    /\ co_started' = Append(co_started, worker_requested_mode)
    /\ co_early' = (co_early \/ Len(co_posted) < CoRequests)
    /\ UNCHANGED <<obsvars, co_posted, co_switched, s1_log>>

CoWorkerFinish == WorkerFinishCore(BOOLEAN) /\ UNCHANGED <<obsvars, covars>>

CoModeSwitched ==
    /\ Len(co_posted) = CoRequests
    /\ ModeSwitchedCore
    /\ co_switched' = co_switched + 1
    /\ UNCHANGED <<obsvars, co_posted, co_started, co_early, s1_log>>

CoNext == CoRequest \/ CoWorkerStart \/ CoWorkerFinish \/ CoModeSwitched

SpecCoalesce == InitObs /\ [][CoNext]_vars

(***************************************************************************)
(* Latest-request scenario: up to MaxRequests mode requests, which may     *)
(* repeat a mode, interleaved with the worker and with the delivery of     *)
(* its completions; every backend step succeeds.                           *)
(***************************************************************************)
MaxRequests == 3

LatestRequest ==
    /\ Len(co_posted) < MaxRequests
    /\ \E m \in RequestModes :
          /\ RequestModeCore(m)
          /\ co_posted' = Append(co_posted, m)
    /\ UNCHANGED <<obsvars, co_started, co_early, co_switched, s1_log>>

LatestWorkerFinish == WorkerFinishCore({TRUE}) /\ UNCHANGED <<obsvars, covars>>

LatestNext == LatestRequest \/ WorkerStart \/ LatestWorkerFinish \/ ModeSwitched

SpecLatest == InitObs /\ [][LatestNext]_vars

(***************************************************************************)
(* Same-user scenario: one known user is active from the start and never   *)
(* changes, export is permitted, and user-change notifications arrive      *)
(* between cable events, mode requests and completions.                    *)
(***************************************************************************)
InitSameUser ==
    /\ ObsInit /\ CtlInit /\ CfgNormal /\ BackendIdle
    /\ current_user \in KnownUsers
    /\ can_export = TRUE

SameUserNext ==
    \/ CableState
    \/ RequestMode
    \/ UserChanged
    \/ WorkerStart
    \/ WorkerFinish
    \/ ModeSwitched

SpecSameUser == InitSameUser /\ [][SameUserNext]_vars

(***************************************************************************)
(* Quiescence: from some point on no further events arrive; the worker     *)
(* and the delivery of completions are scheduled fairly.  Every backend    *)
(* step succeeds here, and the events are cable, user and export changes.  *)
(***************************************************************************)
Quiesce ==
    /\ ~quiescent
    /\ quiescent' = TRUE
    /\ UNCHANGED <<obsvars, ctlvars, envvars, cfgvars, bevars, wrkvars, histvars, covars>>

LiveWorkerFinish == WorkerFinishCore({TRUE}) /\ UNCHANGED <<obsvars, covars>>

LiveNext ==
    \/ CableState
    \/ UserSwitch
    \/ UserChanged
    \/ Rethink
    \/ WorkerStart
    \/ LiveWorkerFinish
    \/ ModeSwitched
    \/ Quiesce

LiveSpec ==
    /\ Init
    /\ [][LiveNext]_vars
    /\ WF_vars(WorkerStart)
    /\ WF_vars(LiveWorkerFinish)
    /\ WF_vars(ModeSwitched)

(***************************************************************************)
(* Mode selection for every configuration.                                 *)
(***************************************************************************)
CfgAny ==
    /\ rescue_mode \in BOOLEAN
    /\ diag_mode \in BOOLEAN
    /\ modelist \in ModeLists
    /\ keep_developer_mode = FALSE
    /\ mode_setting \in [Users -> ConfigModes]
    /\ available_modes \in AvailableLists

InitSel == ObsInit /\ CtlInit /\ CfgAny /\ EnvInit /\ BackendIdle

SelNext == CableState \/ UserSwitch \/ UserChanged \/ Rethink

SpecSel == InitSel /\ [][SelNext]_vars

(***************************************************************************)
(* Debounce properties                                                     *)
(***************************************************************************)
PcConnectNotified ==
    \E i \in 1..Len(notified) : notified[i] = <<"usb", TRUE>>

\* C1: when Disconnected, then PcConnected, then Disconnected are reported
\* and the timer has not fired, PcConnected never becomes the active state
\* and no PC-connect notification is delivered.
DebounceCorrect ==
    dbPhase \in {2, 3} =>
        /\ cable_state_active # CABLE_STATE_PC_CONNECTED
        /\ ~PcConnectNotified

DebounceWitness ==
    /\ dbPhase = 3
    /\ cable_state_active = CABLE_STATE_DISCONNECTED
    /\ cable_state_timer_id = 0

\* C2 as stated: an event of type USB followed, before the timer fires, by
\* an event of type USB_DCP never makes PcConnected active in between and
\* ends at ChargerConnected, whatever the observer state before.
MisdetectAnyState ==
    /\ misPhase = 1 => cable_state_active # CABLE_STATE_PC_CONNECTED
    /\ misPhase = 2 => cable_state_active = CABLE_STATE_CHARGER_CONNECTED

\* C2 amended: the same, when before the USB event the reported state was
\* known and PcConnected was not the active state.
MisdetectKnownState ==
    misPre =>
        /\ misPhase = 1 => /\ cable_state_active # CABLE_STATE_PC_CONNECTED
                           /\ ~PcConnectNotified
        /\ misPhase = 2 => cable_state_active = CABLE_STATE_CHARGER_CONNECTED

MisdetectWitness ==
    /\ misPre
    /\ misPhase = 2
    /\ cable_state_active = CABLE_STATE_CHARGER_CONNECTED
    /\ cable_state_timer_id = 0

(***************************************************************************)
(* Controller properties                                                   *)
(***************************************************************************)
\* An unset mode reads as undefined.
InternalMode ==
    IF control_internal_mode = NULL THEN MODE_UNDEFINED ELSE control_internal_mode

ExternalMode == control_get_external_mode(Ctl)

TargetMode == control_get_target_mode(Ctl)

\* C3 as stated: whenever the external mode is not busy, the internal, the
\* target and the external mode are the same name.
StableModesEqual ==
    ExternalMode # MODE_BUSY =>
        /\ InternalMode = ExternalMode
        /\ TargetMode = ExternalMode

\* C3 amended: whenever the external mode is not busy, it is the canonical
\* external name of the internal mode and the target mode equals it; this
\* is the state right after every control_mode_switched.
StableModesCanonical ==
    /\ ExternalMode # MODE_BUSY =>
        /\ ExternalMode = common_map_mode_to_external(InternalMode)
        /\ TargetMode = ExternalMode
    /\ last = "mode_switched" => ExternalMode # MODE_BUSY

StableModesWitness ==
    /\ last = "mode_switched"
    /\ control_internal_mode = MODE_CHARGING_FALLBACK
    /\ control_external_mode = MODE_CHARGING
    /\ control_target_mode = MODE_CHARGING

\* A posted work item counts as in the worker until its completion has
\* been delivered to the controller.
WorkOutstanding ==
    \/ worker_requested_mode # NULL
    \/ worker_active_mode # NULL
    \/ completions # <<>>

\* C4: the external mode is busy exactly while work is outstanding.
ExternalStability ==
    /\ ExternalMode = MODE_BUSY => WorkOutstanding
    /\ ExternalMode # MODE_BUSY => ~WorkOutstanding

\* The step that delivers completion m while the controller is busy with
\* another mode.
SwitchedToOtherMode ==
    /\ completions # <<>>
    /\ last' = "mode_switched"
    /\ completions' = Tail(completions)
    /\ control_external_mode = MODE_BUSY
    /\ Head(completions) # control_internal_mode

\* C5 as stated: a completion for a mode other than the requested one
\* leaves the controller busy with its target and re-dispatches the worker.
OtherModeKeepsBusy ==
    [][SwitchedToOtherMode =>
          /\ control_external_mode' = MODE_BUSY
          /\ control_target_mode' = control_target_mode
          /\ worker_requested_mode' = control_internal_mode]_vars

\* C5 amended: a completion for a mode other than the requested one makes
\* that mode the internal mode, publishes its canonical external name as
\* external and target mode, records the current user and posts no work.
OtherModeAccepted ==
    [][SwitchedToOtherMode =>
          /\ control_internal_mode' = Head(completions)
          /\ control_external_mode' = common_map_mode_to_external(Head(completions))
          /\ control_target_mode' = control_external_mode'
          /\ control_user_for_mode' = current_user
          /\ worker_requested_mode' = worker_requested_mode]_vars

OtherModeWitness ==
    /\ last = "mode_switched"
    /\ control_external_mode # MODE_BUSY
    /\ control_internal_mode # MODE_CHARGING_FALLBACK
    /\ Len(signals) = 2
    /\ signals[1] = <<"current_state", control_external_mode>>
    /\ signals[2] = <<"target_state", control_external_mode>>

IsStableCurrent(sig) == sig[1] = "current_state" /\ sig[2] # MODE_BUSY

\* No target_state signal follows a current_state signal with a stable mode.
TargetFirst(sigs) ==
    \A i \in 1..Len(sigs), j \in 1..Len(sigs) :
        IsStableCurrent(sigs[i]) /\ sigs[j][1] = "target_state" => j < i

\* Stable modes are published as current state by control_mode_switched only.
StableAfterCompletion ==
    (\E i \in 1..Len(signals') : IsStableCurrent(signals'[i])) => last' = "mode_switched"

\* C8 as stated: every change of the internal mode reaches the target mode
\* before the external mode, and the external mode only after completion.
PublicationTargetFirst ==
    [][/\ control_internal_mode' # control_internal_mode => TargetFirst(signals')
       /\ StableAfterCompletion]_vars

\* C8 amended: a change made by control_set_usb_mode is published to the
\* target mode first, then busy is published, and no stable external mode
\* is published before completion; a change made by control_mode_switched
\* is published to the external mode first and to the target mode after.
PublicationOrder ==
    [][/\ (control_internal_mode' # control_internal_mode /\ last' # "mode_switched") =>
             /\ TargetFirst(signals')
             /\ \A i \in 1..Len(signals'), j \in 1..Len(signals') :
                    (signals'[i][1] = "target_state" /\ signals'[j][1] = "current_state")
                        => i < j
             /\ \A i \in 1..Len(signals') :
                    signals'[i][1] = "target_state" => signals'[i][2] = control_internal_mode'
       /\ (control_internal_mode' # control_internal_mode /\ last' = "mode_switched") =>
             \A i \in 1..Len(signals'), j \in 1..Len(signals') :
                    (signals'[i][1] = "target_state" /\ signals'[j][1] = "current_state")
                        => j < i
       /\ StableAfterCompletion]_vars

PublicationWitness ==
    /\ last = "mode_switched"
    /\ Len(signals) = 2
    /\ signals[1][1] = "current_state"
    /\ signals[2][1] = "target_state"
    /\ control_internal_mode = MODE_UNDEFINED

\* C9: control_set_usb_mode(m) with m the internal mode changes nothing,
\* emits no signal and posts no work, busy or not.
SameModeIsNoOp ==
    [][(Len(requested') = 1 /\ requested'[1] = control_internal_mode) =>
          /\ UNCHANGED <<control_internal_mode, control_target_mode,
                         control_external_mode, control_user_for_mode,
                         worker_requested_mode>>
          /\ signals' = <<>>]_vars

SameModeWitness ==
    /\ last = "set_usb_mode"
    /\ requested = <<control_internal_mode>>
    /\ signals = <<>>
    /\ control_external_mode = MODE_BUSY

(***************************************************************************)
(* Property scenario: the daemon starts with a device that has any         *)
(* combination of the four properties, and change events repeat them.      *)
(***************************************************************************)
PropsStartup ==
    /\ UNCHANGED allctl
    /\ obs_last' = "umudev_init"
    /\ umudev_watch_id = 0
    /\ ~umudev_in_cleanup
    /\ SetObs(umudev_init(Obs, TRUE, udev_props))
    /\ Reported(udev_props)

PropsChange ==
    /\ UNCHANGED allctl
    /\ obs_last' = "udev_change"
    /\ umudev_watch_id # 0
    /\ SetObs(umudev_io_input_cb(Obs, TRUE, TRUE, TRUE, FALSE, udev_props))
    /\ Reported(udev_props)

InitProps ==
    /\ udev_props \in UdevProperties
    /\ power_supplies = <<>>
    /\ downstream = [k \in {"charger", "usb"} |-> FALSE]
    /\ umudev_sysname = 0
    /\ cable_state_current = CABLE_STATE_UNKNOWN
    /\ cable_state_active = CABLE_STATE_UNKNOWN
    /\ cable_state_previous = CABLE_STATE_UNKNOWN
    /\ cable_state_timer_id = 0
    /\ timer_sources = {}
    /\ timer_last_id = 0
    /\ umudev_watch_id = 0
    /\ umudev_in_cleanup = FALSE
    /\ notified = <<>>
    /\ obs_last = "init"
    /\ wakelock_held = 0
    /\ wl_trace = <<>>
    /\ dbPhase = 0
    /\ misPhase = 0
    /\ misPre = FALSE
    /\ CtlInit /\ CfgNormal /\ BackendIdle
    /\ keep_developer_mode = TRUE /\ current_user = UID_UNKNOWN /\ can_export = FALSE

PropsNext == PropsStartup \/ PropsChange

SpecProps == InitProps /\ [][PropsNext]_vars

(***************************************************************************)
(* Discovery scenario: the configured device path does not exist and the   *)
(* observer is started over a list of enumerated power_supply devices; a   *)
(* failure of its event source restarts it over the same list.             *)
(***************************************************************************)
MaxDevices == 2

\* strstr() of the sysname: which of the words it contains ("battery" or
\* "BAT" for battery).
SupplyNames ==
    {[usb |-> u, charger |-> c, battery |-> b] :
        <<u, c, b>> \in {<<TRUE, FALSE, FALSE>>, <<FALSE, TRUE, FALSE>>,
                         <<TRUE, TRUE, FALSE>>, <<FALSE, FALSE, TRUE>>,
                         <<TRUE, FALSE, TRUE>>, <<FALSE, FALSE, FALSE>>}}

SupplyProperties == [present : {ABSENT, "1"}, online : {ABSENT, "1"},
                     real_type : {ABSENT}, type : {ABSENT, "USB"}]

PowerSupplies == [name : SupplyNames, props : SupplyProperties]

DeviceLists == UNION {[1..n -> PowerSupplies] : n \in 0..MaxDevices}

DiscoverStartup ==
    /\ UNCHANGED allctl
    /\ obs_last' = "umudev_init"
    /\ umudev_watch_id = 0
    /\ ~umudev_in_cleanup
    /\ \E opens \in BOOLEAN, monitor \in BOOLEAN :
          SetObs(umudev_init_guess(Obs, power_supplies, opens, monitor))
    /\ UNCHANGED <<dbPhase, misPhase, misPre>>

DiscoverRestart ==
    /\ UNCHANGED allctl
    /\ obs_last' = "io_failure"
    /\ umudev_watch_id # 0
    /\ \E opens \in BOOLEAN, monitor \in BOOLEAN :
          LET o == umudev_io_input_cb(Obs, FALSE, FALSE, FALSE, FALSE,
                                      NoProperties)
          IN  SetObs(IF o.in_cleanup
                     THEN o
                     ELSE umudev_init_guess(umudev_quit(o), power_supplies,
                                            opens, monitor))
    /\ UNCHANGED <<dbPhase, misPhase, misPre>>

InitDiscover ==
    /\ udev_props = NoProperties
    /\ power_supplies \in DeviceLists
    /\ downstream = [k \in {"charger", "usb"} |-> FALSE]
    /\ umudev_sysname = 0
    /\ cable_state_current = CABLE_STATE_UNKNOWN
    /\ cable_state_active = CABLE_STATE_UNKNOWN
    /\ cable_state_previous = CABLE_STATE_UNKNOWN
    /\ cable_state_timer_id = 0
    /\ timer_sources = {}
    /\ timer_last_id = 0
    /\ umudev_watch_id = 0
    /\ umudev_in_cleanup = FALSE
    /\ notified = <<>>
    /\ obs_last = "init"
    /\ wakelock_held = 0
    /\ wl_trace = <<>>
    /\ dbPhase = 0
    /\ misPhase = 0
    /\ misPre = FALSE
    /\ CtlInit /\ CfgNormal /\ BackendIdle
    /\ keep_developer_mode = TRUE /\ current_user = UID_UNKNOWN /\ can_export = FALSE

DiscoverNext == DiscoverStartup \/ DiscoverRestart

SpecDiscover == InitDiscover /\ [][DiscoverNext]_vars

(***************************************************************************)
(* Restart scenario: the observer starts and restarts after failures of    *)
(* its event source while the daemon accepts mode requests.                *)
(***************************************************************************)
RestartNext ==
    \/ UmudevInit
    \/ UdevIoFailure
    \/ TimerFire
    \/ RequestMode

SpecRestart == InitObs /\ [][RestartNext]_vars

(***************************************************************************)
(* Backend scenario: the backend is set up, then its functions are called  *)
(* in any order and meet faults.  The boot may have left two functions     *)
(* enabled.                                                                *)
(***************************************************************************)
InitBackend ==
    /\ ObsInit /\ CtlInit /\ CfgNormal
    /\ keep_developer_mode = TRUE /\ current_user = UID_UNKNOWN /\ can_export = FALSE
    /\ GadgetInit
    /\ gadget_root = TRUE
    /\ config_links \in {{}, {FUNCTION_RNDIS, FUNCTION_MTP}}
    /\ sys_class_udc \in {<<>>, UdcName}
    /\ init_done \in BOOLEAN
    /\ id_input = NullId

BackendNext ==
    \/ InitValuesOk
    \/ SetFunction
    \/ SetChargingMode
    \/ SetUdc

SpecBackend == InitBackend /\ [][BackendNext]_vars

(***************************************************************************)
(* Probe scenario: configfs_init_values is called again and again, the     *)
(* gadget is attached and detached, and the gadget root comes and goes.    *)
(***************************************************************************)
InitProbe ==
    /\ ObsInit /\ CtlInit /\ CfgNormal
    /\ keep_developer_mode = TRUE /\ current_user = UID_UNKNOWN /\ can_export = FALSE
    /\ GadgetInit
    /\ gadget_root \in BOOLEAN
    /\ config_links = {}
    /\ sys_class_udc = UdcName
    /\ init_done = FALSE
    /\ id_input = NullId

ProbeNext == InitValues \/ SetChargingMode \/ SetUdc \/ RootAppears \/ RootVanishes

SpecProbe == InitProbe /\ [][ProbeNext]_vars

(***************************************************************************)
(* Id scenario: the backend is set up, then an id text is set as product   *)
(* id and as vendor id.                                                    *)
(***************************************************************************)
IdAlphabet == {" ", "0", "x", "A", "f", "z", "-"}

\* The longest id text that is made of the alphabet.
MaxIdLen == 3

IdSamples == {<<"0", "A", "F", "E">>, <<"0", "x", "0", "A", "F", "E">>,
              <<"0", "x", "0", "a", "f", "e">>, <<"0", "X", "0", "a", "f", "e">>,
              <<"1", "2", "3", "4", "5">>, <<" ", "0", "A", "F", "E", " ">>}

IdStrings == UNION {[1..n -> IdAlphabet] : n \in 0..MaxIdLen} \cup IdSamples

InitIds ==
    /\ ObsInit /\ CtlInit /\ CfgNormal
    /\ keep_developer_mode = TRUE /\ current_user = UID_UNKNOWN /\ can_export = FALSE
    /\ GadgetInit
    /\ gadget_root = TRUE
    /\ config_links = {}
    /\ sys_class_udc = UdcName
    /\ init_done = FALSE
    /\ id_input \in IdStrings

IdsNext == InitValuesOk \/ SetProductId \/ SetVendorId

SpecIds == InitIds /\ [][IdsNext]_vars

(***************************************************************************)
(* Ask configured, a single mode available.                                *)
(***************************************************************************)
CfgAsk ==
    /\ rescue_mode = FALSE
    /\ diag_mode = FALSE
    /\ modelist = <<MODE_MTP, MODE_DEVELOPER>>
    /\ keep_developer_mode = FALSE
    /\ mode_setting = [u \in Users |-> MODE_ASK]
    /\ available_modes = <<MODE_MTP>>

InitAsk == ObsInit /\ CtlInit /\ CfgAsk /\ EnvInit /\ BackendIdle

AskNext ==
    \/ CableState
    \/ UserSwitch
    \/ UserChanged
    \/ Rethink
    \/ WorkerStart
    \/ WorkerFinish
    \/ ModeSwitched

SpecAsk == InitAsk /\ [][AskNext]_vars

(***************************************************************************)
(* Connect scenario: startup, a PC connection, the worker completes the    *)
(* requested mode, the completion is delivered.                            *)
(***************************************************************************)
S1Connect ==
    /\ last = "init"
    /\ CableStateCore({CABLE_STATE_PC_CONNECTED})
    /\ s1_log' = s1_log \o signals'
    /\ UNCHANGED <<obsvars, co_posted, co_started, co_early, co_switched>>

S1ModeSwitched ==
    /\ ModeSwitchedCore
    /\ s1_log' = s1_log \o signals'
    /\ UNCHANGED <<obsvars, co_posted, co_started, co_early, co_switched>>

S1Next == S1Connect \/ WorkerStart \/ LiveWorkerFinish \/ S1ModeSwitched

SpecS1 == InitSel /\ [][S1Next]_vars

(***************************************************************************)
(* Coalescing properties                                                   *)
(***************************************************************************)
\* All requests of the scenario were made and nothing is left to do.
CoDone ==
    /\ Len(co_posted) = CoRequests
    /\ worker_requested_mode = NULL
    /\ worker_active_mode = NULL
    /\ completions = <<>>

\* C6 as stated: after requests for pairwise different modes m1, m2, m3
\* with no completion delivered in between, the worker has processed only
\* m3, once, and exactly one control_mode_switched was delivered, wherever
\* the worker picked up its first request.
CoalesceAlways ==
    CoDone => /\ co_started = <<co_posted[CoRequests]>>
              /\ co_switched = 1

\* C6 amended: the worker processes the last request last and exactly
\* once, one control_mode_switched is delivered for each request it
\* processed, every request it processed before was picked up before the
\* last request was made, and when it picked up nothing before the last
\* request was made it processes only that one and exactly one
\* control_mode_switched is delivered.
CoalescePending ==
    CoDone => /\ co_started # <<>>
              /\ co_started[Len(co_started)] = co_posted[CoRequests]
              /\ \A i \in 1..(Len(co_started) - 1) :
                    co_started[i] # co_posted[CoRequests]
              /\ co_switched = Len(co_started)
              /\ (Len(co_started) > 1 => co_early)
              /\ (~co_early => /\ co_started = <<co_posted[CoRequests]>>
                               /\ co_switched = 1)

CoalesceWitness ==
    CoDone /\ ~co_early /\ co_switched = 1

(***************************************************************************)
(* Convergence                                                             *)
(***************************************************************************)
\* C7: once the cable state is Disconnected and no further events arrive,
\* the internal mode eventually becomes and stays undefined; once it is
\* ChargerConnected and no further events arrive, the internal mode
\* eventually becomes and stays charger.
CableConvergence ==
    /\ (quiescent /\ control_cable_state = CABLE_STATE_DISCONNECTED)
           ~> [](control_internal_mode = MODE_UNDEFINED)
    /\ (quiescent /\ control_cable_state = CABLE_STATE_CHARGER_CONNECTED)
           ~> [](control_internal_mode = MODE_CHARGER)

(***************************************************************************)
(* Mode selector decision table                                            *)
(***************************************************************************)
\* The configured mode of a user with ask resolved; NULL when there is none.
ConfiguredMode(user) ==
    LET M == mode_setting[user]
    IN  IF M # MODE_ASK THEN M
        ELSE IF user = UID_UNKNOWN THEN NULL
        ELSE IF Len(available_modes) = 1 THEN available_modes[1]
        ELSE M

\* The table without the diagnostic row.
SelectorTable(user, export, user_changed) ==
    IF rescue_mode THEN <<MODE_DEVELOPER>>
    ELSE IF ConfiguredMode(user) # NULL /\ export /\ ~user_changed
    THEN <<ConfiguredMode(user)>>
    ELSE <<MODE_CHARGING_FALLBACK>>

\* The table with the diagnostic row.
SelectorTableDiag(user, export, user_changed) ==
    IF rescue_mode THEN <<MODE_DEVELOPER>>
    ELSE IF diag_mode THEN (IF modelist = <<>> THEN <<>> ELSE <<modelist[1]>>)
    ELSE SelectorTable(user, export, user_changed)

\* C10 as stated: for every combination of rescue flag, diagnostic flag,
\* user, configured mode, available modes, export permission and
\* user_changed, control_select_usb_mode_ex requests developer_mode when the
\* rescue flag is set, otherwise the configured mode (ask resolved) when
\* there is one, export is permitted and user_changed is false, otherwise
\* charging_fallback.
SelectorDecision ==
    [][selected' # "none" =>
          requested' = SelectorTable(current_user', can_export',
                                     selected' = "user_changed")]_vars

\* C10 amended: as stated when the diagnostic flag is clear; when the
\* rescue flag is clear and the diagnostic flag is set the function
\* requests the first mode of the mode list, and requests nothing when the
\* list is empty.
SelectorDecisionDiag ==
    [][selected' # "none" =>
          requested' = SelectorTableDiag(current_user', can_export',
                                         selected' = "user_changed")]_vars

SelectorWitness ==
    /\ selected # "none"
    /\ ~rescue_mode
    /\ diag_mode
    /\ requested = <<MODE_MTP>>

(***************************************************************************)
(* Ask resolution                                                          *)
(***************************************************************************)
\* The step is a change of the cable state to PcConnected.
PcConnects ==
    /\ last' = "set_cable_state"
    /\ control_cable_state # CABLE_STATE_PC_CONNECTED
    /\ control_cable_state' = CABLE_STATE_PC_CONNECTED

DialogShown(sigs) ==
    \E i \in 1..Len(sigs) : sigs[i] = <<"event", "connected_dialog_show">>

\* C11: with ask configured and exactly one mode available, a PC connection
\* of a known user with export permitted requests that mode, and when the
\* worker completes it the external mode becomes that mode; the external
\* mode is never ask and no connected_dialog_show event is emitted; a PC
\* connection of the Unknown user requests charging_fallback.
AskResolution ==
    [][/\ (PcConnects /\ current_user # UID_UNKNOWN /\ can_export)
            => requested' = <<available_modes[1]>>
       /\ (PcConnects /\ current_user = UID_UNKNOWN)
            => requested' = <<MODE_CHARGING_FALLBACK>>
       /\ (last' = "mode_switched" /\ Head(completions) = available_modes[1])
            => control_external_mode' = available_modes[1]
       /\ control_external_mode' # MODE_ASK
       /\ ~DialogShown(signals')]_vars

AskResolutionWitness ==
    /\ last = "mode_switched"
    /\ control_cable_state = CABLE_STATE_PC_CONNECTED
    /\ current_user # UID_UNKNOWN
    /\ can_export
    /\ control_external_mode = MODE_MTP
    /\ control_user_for_mode = current_user

(***************************************************************************)
(* Diagnostic mode                                                         *)
(***************************************************************************)
DiagConfigured == diag_mode /\ ~rescue_mode

\* A PC connection in diagnostic mode requests the first mode of the list.
DiagRequestsFirst ==
    (PcConnects /\ DiagConfigured /\ modelist # <<>>)
        => requested' = <<modelist[1]>>

\* The last step ran the selector in diagnostic mode with an empty list.
DiagNotConfigured ==
    selected # "none" /\ DiagConfigured /\ modelist = <<>>

CableStateSame ==
    last' = "set_cable_state" /\ control_cable_state' = control_cable_state

\* The step is a control_set_cable_state call with another state.
CableStateDiffers ==
    last' = "set_cable_state" /\ control_cable_state' # control_cable_state

CableStateUntouched ==
    /\ requested' = <<>>
    /\ signals' = <<>>
    /\ UNCHANGED <<control_internal_mode, control_target_mode,
                   control_external_mode, control_user_for_mode,
                   worker_requested_mode>>

\* C13 as stated: control_set_cable_state with the stored state requests
\* nothing and changes nothing; with another state exactly one request
\* follows: undefined for Disconnected and Unknown, charger for
\* ChargerConnected, the selector's result for PcConnected.
CableStateOneRequest ==
    [][/\ CableStateSame => CableStateUntouched
       /\ CableStateDiffers =>
            /\ Len(requested') = 1
            /\ control_cable_state' \in {CABLE_STATE_DISCONNECTED, CABLE_STATE_UNKNOWN}
                  => requested' = <<MODE_UNDEFINED>>
            /\ control_cable_state' = CABLE_STATE_CHARGER_CONNECTED
                  => requested' = <<MODE_CHARGER>>
            /\ control_cable_state' = CABLE_STATE_PC_CONNECTED
                  => requested' = SelectorTableDiag(current_user, can_export, FALSE)]_vars

\* C13 amended: as stated, except that for PcConnected no request follows
\* when the selector has no result (diagnostic mode with an empty list).
CableStateRequests ==
    [][/\ CableStateSame => CableStateUntouched
       /\ CableStateDiffers =>
            /\ control_cable_state' \in {CABLE_STATE_DISCONNECTED, CABLE_STATE_UNKNOWN}
                  => requested' = <<MODE_UNDEFINED>>
            /\ control_cable_state' = CABLE_STATE_CHARGER_CONNECTED
                  => requested' = <<MODE_CHARGER>>
            /\ control_cable_state' = CABLE_STATE_PC_CONNECTED
                  => /\ requested' = SelectorTableDiag(current_user, can_export, FALSE)
                     /\ Len(requested') = 1 <=> ~(DiagConfigured /\ modelist = <<>>)]_vars

CableStateWitness ==
    /\ last = "set_cable_state"
    /\ control_cable_state = CABLE_STATE_CHARGER_CONNECTED
    /\ requested = <<MODE_CHARGER>>
    /\ control_internal_mode = MODE_CHARGER

(***************************************************************************)
(* control_rethink_usb_charging_fallback                                   *)
(***************************************************************************)
\* What the handler requires, in the state it is called in; export is
\* what usbmoded_can_export() returns during the call.
RethinkApplies(export) ==
    /\ control_cable_state = CABLE_STATE_PC_CONNECTED
    /\ control_internal_mode \in {MODE_UNDEFINED, MODE_CHARGING_FALLBACK}
    /\ export

\* C14: control_rethink_usb_charging_fallback changes no state, sends no
\* signal and posts no work unless the cable state is PcConnected, the
\* internal mode is undefined or charging_fallback and export is
\* permitted; then it runs the selector and requests its result.
RethinkFrame ==
    [][last' = "rethink" =>
          IF RethinkApplies(can_export')
          THEN /\ selected' = "plain"
               /\ requested' = SelectorTableDiag(current_user, can_export', FALSE)
          ELSE /\ selected' = "none"
               /\ requested' = <<>>
               /\ signals' = <<>>
               /\ UNCHANGED <<control_internal_mode, control_target_mode,
                              control_external_mode, control_cable_state,
                              control_user_for_mode, worker_requested_mode>>]_vars

RethinkWitness ==
    /\ last = "rethink"
    /\ selected = "plain"
    /\ can_export
    /\ requested # <<>>
    /\ control_internal_mode = requested[1]
    /\ worker_requested_mode = requested[1]

(***************************************************************************)
(* Transition failure                                                      *)
(***************************************************************************)
\* The step delivers the completion charging_fallback while the internal
\* mode, the mode last requested, is another mode.
FallbackReported ==
    /\ completions # <<>>
    /\ last' = "mode_switched"
    /\ Head(completions) = MODE_CHARGING_FALLBACK
    /\ control_internal_mode # MODE_CHARGING_FALLBACK

\* C15: when control_mode_switched(charging_fallback) is delivered for a
\* request of another mode, the internal mode becomes charging_fallback,
\* the external and the target mode become its external synonym, which is
\* not busy, user_for_mode becomes the current user, and no mode is
\* requested and no work item is posted.
TransitionFailureFallback ==
    [][FallbackReported =>
          /\ control_internal_mode' = MODE_CHARGING_FALLBACK
          /\ control_external_mode' = common_map_mode_to_external(MODE_CHARGING_FALLBACK)
          /\ control_external_mode' # MODE_BUSY
          /\ control_target_mode' = control_external_mode'
          /\ control_user_for_mode' = current_user
          /\ requested' = <<>>
          /\ worker_requested_mode' = worker_requested_mode
          /\ worker_active_mode' = worker_active_mode]_vars

TransitionFailureWitness ==
    /\ last = "mode_switched"
    /\ control_cable_state = CABLE_STATE_CHARGER_CONNECTED
    /\ control_internal_mode = MODE_CHARGING_FALLBACK
    /\ control_external_mode = MODE_CHARGING
    /\ control_target_mode = MODE_CHARGING
    /\ control_user_for_mode = current_user
    /\ current_user # UID_UNKNOWN
    /\ worker_requested_mode = NULL
    /\ worker_active_mode = NULL
    /\ completions = <<>>

(***************************************************************************)
(* Outbound signals                                                        *)
(***************************************************************************)
\* The values carried by the signals of a kind, in order.
SignalValues(sigs, kind) ==
    LET of_kind == SelectSeq(sigs, LAMBDA x : x[1] = kind)
    IN  [i \in 1..Len(of_kind) |-> of_kind[i][2]]

\* The signals of a kind a step has to send for a mode that goes from
\* before to after, given the value signalled last.
SignalsFor(sent, latest, before, after) ==
    /\ sent = (IF after # before THEN <<after>> ELSE <<>>)
    /\ sent # <<>> => sent[1] # latest

\* C16: a step sends a current_state signal exactly when it changes the
\* external mode and a target_state signal exactly when it changes the
\* target mode, each carrying the new value; a signal never repeats the
\* value of the latest signal of its kind, and the value signalled last is
\* the stored mode.
SignalsFollowChanges ==
    [][/\ SignalsFor(SignalValues(signals', "current_state"), sent_current,
                     control_external_mode, control_external_mode')
       /\ SignalsFor(SignalValues(signals', "target_state"), sent_target,
                     control_target_mode, control_target_mode')
       /\ sent_current' = control_external_mode'
       /\ sent_target' = control_target_mode']_vars

SignalsWitness ==
    /\ last = "mode_switched"
    /\ signals = <<<<"current_state", control_external_mode>>>>
    /\ sent_target = control_target_mode
    /\ control_target_mode = control_external_mode

(***************************************************************************)
(* The connected_dialog_show event                                         *)
(***************************************************************************)
IsDialogEvent(sig) == sig = <<"event", "connected_dialog_show">>

\* C17: a step sends connected_dialog_show exactly when it changes the
\* external mode to ask: once, directly before the current_state signal
\* that carries ask, and not at all for any other step.
DialogOnAsk ==
    [][LET sigs == signals'
           to_ask == /\ control_external_mode' = MODE_ASK
                     /\ control_external_mode # MODE_ASK
       IN  /\ Len(SelectSeq(sigs, IsDialogEvent)) = (IF to_ask THEN 1 ELSE 0)
           /\ \A i \in 1..Len(sigs) :
                 IsDialogEvent(sigs[i]) =>
                     /\ i < Len(sigs)
                     /\ sigs[i + 1] = <<"current_state", MODE_ASK>>]_vars

DialogWitness ==
    /\ last = "mode_switched"
    /\ control_external_mode = MODE_ASK
    /\ Len(signals) >= 2
    /\ IsDialogEvent(signals[1])
    /\ signals[2] = <<"current_state", MODE_ASK>>

(***************************************************************************)
(* PC connect happy path                                                   *)
(***************************************************************************)
\* The selector picks the configured mode of the current user.
S1Configured ==
    /\ ~rescue_mode
    /\ ~diag_mode
    /\ ConfiguredMode(current_user) # NULL
    /\ can_export

\* The completion of the connect scenario has been delivered.
S1Done == last = "mode_switched"

\* C18: from the initial state, a PC connection that selects the
\* configured mode and a worker that completes it take the external mode
\* from undefined, which is what the unset initial value reads as, to busy
\* and then to the configured mode, with exactly two current_state signals
\* and exactly one target_state signal.
HappyPath ==
    (S1Done /\ S1Configured) =>
        LET m == ConfiguredMode(current_user)
        IN  /\ SignalValues(s1_log, "current_state") = <<MODE_BUSY, m>>
            /\ SignalValues(s1_log, "target_state") = <<m>>
            /\ control_external_mode = m
            /\ control_cable_state = CABLE_STATE_PC_CONNECTED

HappyPathWitness ==
    /\ S1Done
    /\ S1Configured
    /\ control_external_mode = MODE_MTP
    /\ Len(s1_log) = 3

(***************************************************************************)
(* Cable state transition timing                                           *)
(***************************************************************************)
\* The step changes the reported cable state.
ReportChanges == cable_state_current' # cable_state_current

\* C19: the first report after Unknown becomes active in the same step,
\* also when it is PcConnected; a report of PcConnected after a known
\* state leaves the active state alone and schedules the timer, and the
\* active state follows only when the timer fires; every other change of
\* the reported state becomes active in the same step.
TransitionTiming ==
    [][/\ (ReportChanges /\ cable_state_current = CABLE_STATE_UNKNOWN)
            => cable_state_active' = cable_state_current'
       /\ (ReportChanges /\ cable_state_current # CABLE_STATE_UNKNOWN
                         /\ cable_state_current' = CABLE_STATE_PC_CONNECTED)
            => /\ cable_state_active' = cable_state_active
               /\ cable_state_active' # CABLE_STATE_PC_CONNECTED
               /\ cable_state_timer_id' # 0
       /\ (ReportChanges /\ cable_state_current # CABLE_STATE_UNKNOWN
                         /\ cable_state_current' # CABLE_STATE_PC_CONNECTED)
            => cable_state_active' = cable_state_current'
       /\ (~ReportChanges /\ cable_state_active' # cable_state_active)
            => /\ obs_last' = "timer"
               /\ cable_state_timer_id # 0
               /\ cable_state_active' = cable_state_current]_vars

TransitionTimingWitness ==
    /\ obs_last = "udev_change"
    /\ cable_state_current = CABLE_STATE_PC_CONNECTED
    /\ cable_state_active = CABLE_STATE_CHARGER_CONNECTED
    /\ cable_state_timer_id # 0
    /\ notified = <<>>

(***************************************************************************)
(* Pending promotion                                                       *)
(***************************************************************************)
\* C20: while the delayed transfer to PcConnected is scheduled, a change
\* event that reports PcConnected again leaves the timer, which is the one
\* scheduled by the first report, and the active state as they are; a
\* change event that reports another state removes the timer and makes
\* that state active in the same step; there is never more than one timer.
PendingPromotion ==
    [][/\ (obs_last' = "udev_change" /\ cable_state_timer_id # 0) =>
            IF cable_state_current' = CABLE_STATE_PC_CONNECTED
            THEN /\ cable_state_timer_id' = cable_state_timer_id
                 /\ timer_sources' = timer_sources
                 /\ cable_state_active' = cable_state_active
                 /\ notified' = <<>>
            ELSE /\ cable_state_timer_id' = 0
                 /\ cable_state_active' = cable_state_current'
       /\ timer_sources' = (IF cable_state_timer_id' = 0
                            THEN {}
                            ELSE {cable_state_timer_id'})]_vars

PendingPromotionWitness ==
    /\ obs_last = "udev_change"
    /\ cable_state_timer_id = 2
    /\ timer_sources = {2}
    /\ cable_state_current = CABLE_STATE_PC_CONNECTED
    /\ cable_state_active = CABLE_STATE_DISCONNECTED

(***************************************************************************)
(* Property-to-state mapping                                               *)
(***************************************************************************)
\* The state the four properties stand for.
MappedState(p) ==
    LET presence == IF p.present # ABSENT THEN p.present ELSE p.online
        kind == IF p.real_type # ABSENT THEN p.real_type ELSE p.type
    IN  IF presence # "1" THEN CABLE_STATE_DISCONNECTED
        ELSE CASE kind \in {"USB", "USB_CDP", ABSENT} -> CABLE_STATE_PC_CONNECTED
               [] kind \in {"USB_DCP", "USB_HVDCP", "USB_HVDCP_3", "USB_FLOAT"}
                     -> CABLE_STATE_CHARGER_CONNECTED
               [] OTHER -> CABLE_STATE_DISCONNECTED

\* C21: for every combination of the four properties the state reported
\* by umudev_parse_properties is Disconnected unless the preferred presence
\* property is 1, and otherwise follows the preferred type property:
\* PcConnected for USB, USB_CDP and no type, ChargerConnected for USB_DCP,
\* USB_HVDCP, USB_HVDCP_3 and USB_FLOAT, Disconnected for anything else.
PropertyMapping ==
    obs_last # "init" =>
        /\ cable_state_current = MappedState(udev_props)
        /\ cable_state_active = cable_state_current

PropertyMappingWitness ==
    /\ obs_last = "umudev_init"
    /\ udev_props.present = ABSENT
    /\ udev_props.online = "1"
    /\ udev_props.real_type = "USB_DCP"
    /\ udev_props.type = "USB"
    /\ cable_state_current = CABLE_STATE_CHARGER_CONNECTED

(***************************************************************************)
(* Observer failure policy                                                 *)
(***************************************************************************)
\* The event source failed and the observer could not be set up again.
ObserverLost ==
    /\ obs_last = "io_failure"
    /\ umudev_watch_id = 0

\* C22: when reading the event source fails the observer is torn down and
\* set up again once, and when that fails the daemon exits: no handler of
\* the daemon runs while the observer is lost.
ObserverFailureFatal ==
    [][~ObserverLost]_vars

(***************************************************************************)
(* Wake-lock discipline                                                    *)
(***************************************************************************)
InputCallbackRan == obs_last \in {"udev_change", "udev_other", "io_failure"}

WakeLockCalls(call) == {i \in 1..Len(wl_trace) : wl_trace[i] = call}

IdWritten == be_last \in {"set_productid", "set_vendorid"} /\ be_ret

WrittenId == IF be_last = "set_productid" THEN id_product ELSE id_vendor

LeadingSpaces(t) ==
    Cardinality({i \in 1..Len(t) : \A j \in 1..i : IsSpace(t[j])})

TrailingSpaces(t) ==
    Cardinality({i \in 1..Len(t) : \A j \in i..Len(t) : IsSpace(t[j])})

\* t without the white space around it.
Trimmed(t) ==
    IF LeadingSpaces(t) = Len(t)
    THEN <<>>
    ELSE SubSeq(t, LeadingSpaces(t) + 1, Len(t) - TrailingSpaces(t))

Unsigned(t) == IF t # <<>> /\ t[1] \in {"+", "-"} THEN Tail(t) ELSE t

Unprefixed(t) ==
    IF Len(t) >= 2 /\ t[1] = "0" /\ t[2] \in {"x", "X"}
    THEN SubSeq(t, 3, Len(t))
    ELSE t

AllHex(t) == t # <<>> /\ \A i \in 1..Len(t) : IsHexDigit(t[i])

RECURSIVE HexValue(_)
HexValue(t) ==
    IF t = <<>>
    THEN 0
    ELSE 16 * HexValue(SubSeq(t, 1, Len(t) - 1)) + DigitValue(t[Len(t)])

RECURSIVE HexText(_)
HexText(v) ==
    IF v = 0 THEN <<>> ELSE Append(HexText(v \div 16), LowerHex[(v % 16) + 1])

\* v in lower case hex, filled with zeros to n digits.
RECURSIVE Padded(_, _)
Padded(t, n) == IF Len(t) >= n THEN t ELSE Padded(<<"0">> \o t, n)

\* The four lowest hex digits of v.
FourDigits(v) == Padded(HexText(v % 65536), 4)

Events(t) == {t[i] : i \in 1..Len(t)}

\* The step of configfs_set_function a system call belongs to.
StageOf(e) ==
    CASE e[1] = "mtpd_stop" -> 0
      [] e[2] = "UDC" -> 1
      [] e[1] \in {"opendir", "unlink"} -> 2
      [] e[1] \in {"mkdir", "symlink"} -> 3
      [] e[1] = "mtpd_start" -> 4
      [] OTHER -> 5

\* C25: configfs_set_function disables the UDC, then unlinks the enabled
\* functions, then links the mapped function, then for mtp starts the
\* helper and waits; nothing follows a call that failed, but the other
\* unlinks.  When it returns true the mapped function is the one link in
\* the config directory, the UDC attribute is empty and all calls
\* succeeded.
SetFunctionOrder ==
    be_last = "set_function" =>
        LET fn == configfs_map_function(be_arg)
            n == Len(be_trace)
        IN  /\ \A i, j \in 1..n :
                  i < j => /\ StageOf(be_trace[i]) <= StageOf(be_trace[j])
                           /\ ~be_trace[i][3] =>
                                 /\ be_trace[i][1] = "unlink"
                                 /\ be_trace[j][1] = "unlink"
            /\ be_ret =>
                  /\ config_links = {fn}
                  /\ udc_attr = <<>>
                  /\ \A e \in Events(be_trace) : e[3]
                  /\ {<<"read", "UDC", TRUE>>, <<"opendir", "b.1", TRUE>>,
                      <<"symlink", fn, TRUE>>} \subseteq Events(be_trace)
                  /\ IF fn = FUNCTION_MTP
                     THEN /\ n >= 2
                          /\ be_trace[n - 1][1] = "mtpd_start"
                          /\ be_trace[n][1] = "msleep"
                     ELSE /\ be_trace[n][1] = "symlink"
                          /\ \A e \in Events(be_trace) : e[1] # "mtpd_start"

SetFunctionWitness ==
    /\ be_last = "set_function"
    /\ be_ret
    /\ be_arg = "mtp"
    /\ config_links = {FUNCTION_MTP}
    /\ <<"unlink", FUNCTION_RNDIS, TRUE>> \in Events(be_trace)
    /\ <<"write", "UDC", TRUE>> \in Events(be_trace)
    /\ be_trace[Len(be_trace)][1] = "msleep"

(***************************************************************************)
(* Failure leaves the gadget disabled                                      *)
(***************************************************************************)
BackendFailed ==
    /\ be_last \in {"set_function", "set_charging_mode"}
    /\ configfs_probed > 0
    /\ ~be_ret

\* The step that disables the UDC is the one that failed.
DisableStepFailed ==
    \E i \in 1..Len(be_trace) :
        /\ be_trace[i][2] = "UDC"
        /\ ~be_trace[i][3]
        /\ \A j \in 1..(i - 1) : be_trace[j][1] \in {"mtpd_stop", "read"}

\* C26 as stated: whenever configfs_set_function or
\* configfs_set_charging_mode returns false with the backend in use, the
\* UDC attribute is empty.
FailureLeavesDisabled == BackendFailed => udc_attr = <<>>

\* C26: when configfs_set_function or configfs_set_charging_mode returns
\* false with the backend in use, the UDC attribute is empty, unless no
\* function was given or the step that disables the UDC failed itself.
FailureLeavesDisabledAfterUdc ==
    (BackendFailed /\ be_arg # NULL /\ ~DisableStepFailed) => udc_attr = <<>>

FailureLeavesDisabledWitness ==
    /\ BackendFailed
    /\ be_last = "set_function"
    /\ <<"write", "UDC", TRUE>> \in Events(be_trace)
    /\ \E fn \in GadgetFunctions : <<"symlink", fn, FALSE>> \in Events(be_trace)
    /\ udc_attr = <<>>

(***************************************************************************)
(* configfs_set_charging_mode                                              *)
(***************************************************************************)
\* C27: configfs_set_charging_mode returns true only if selecting
\* mass_storage, writing the product id and enabling the UDC all succeeded,
\* and then mass_storage.usb0 is the only enabled function, idProduct holds
\* 0x0afe and the UDC attribute holds the non-empty controller name.
ChargingModeComplete ==
    (be_last = "set_charging_mode" /\ be_ret) =>
        /\ \A e \in Events(be_trace) : e[3]
        /\ config_links = {FUNCTION_MASS_STORAGE}
        /\ id_product = <<"0", "x", "0", "a", "f", "e">>
        /\ udc_attr # <<>>
        /\ udc_attr = sys_class_udc

(***************************************************************************)
(* UDC read-before-write                                                   *)
(***************************************************************************)
UdcWrites(t) == Cardinality({i \in 1..Len(t) : t[i][1] = "write" /\ t[i][2] = "UDC"})

\* One call of configfs_set_udc: the attribute is read first; when the read
\* fails the call returns false and neither writes nor changes anything;
\* otherwise it writes exactly when the value read differs from the
\* wanted one, and a call that returns true leaves the wanted value.
SetUdcStep ==
    be_last' = "set_udc" =>
        LET wanted == IF be_arg' = "enable" THEN sys_class_udc ELSE <<>>
        IN  /\ be_trace'[1][1] = "read"
            /\ IF be_trace'[1][3]
               THEN (UdcWrites(be_trace') = 1) = (udc_attr # wanted)
               ELSE /\ ~be_ret'
                    /\ UdcWrites(be_trace') = 0
                    /\ udc_attr' = udc_attr
            /\ UdcWrites(be_trace') <= 1
            /\ be_ret' => udc_attr' = wanted

SetUdcTwice ==
    /\ be_last = "set_udc"
    /\ be_last' = "set_udc"
    /\ be_arg' = be_arg

\* C28 as stated: configfs_set_udc writes if and only if the value read
\* differs from the wanted one, returns false without writing when the
\* read fails, and two calls in a row with the same argument make at most
\* one write.
UdcReadBeforeWrite ==
    [][/\ SetUdcStep
       /\ SetUdcTwice => UdcWrites(be_trace) + UdcWrites(be_trace') <= 1]_vars

\* C28: configfs_set_udc writes if and only if the value read differs from
\* the wanted one and returns false without writing when the read fails;
\* after a call that returned true the next call with the same argument
\* does not write, after one whose write failed it writes again.
UdcReadBeforeWriteRetry ==
    [][/\ SetUdcStep
       /\ (SetUdcTwice /\ be_ret) => UdcWrites(be_trace') = 0
       /\ (SetUdcTwice /\ <<"write", "UDC", FALSE>> \in Events(be_trace)
             /\ be_trace'[1][3]) => UdcWrites(be_trace') = 1]_vars

UdcReadBeforeWriteWitness ==
    /\ be_last = "set_udc"
    /\ be_arg = "enable"
    /\ be_ret
    /\ be_trace = <<<<"read", "UDC", TRUE>>>>
    /\ udc_attr = UdcName

(***************************************************************************)
(* configfs_init_values                                                    *)
(***************************************************************************)
GadgetFiles == <<udc_attr, id_vendor, id_product, gadget_strings,
                 function_dirs, config_links, mtp_ep0>>

\* C29 as stated: configfs_init_values returns false and makes no call
\* when the gadget root is absent, returns true when it is present, and
\* run twice in a row leaves the gadget as one run does.
InitValuesIdempotent ==
    [][be_last' = "init_values" =>
          /\ be_ret' = gadget_root
          /\ ~gadget_root => be_trace' = <<>>
          /\ be_last = "init_values" => GadgetFiles' = GadgetFiles]_vars

\* C29: configfs_init_values returns false, and makes no call, exactly
\* when the gadget root is absent and no earlier probe has found it; with
\* the root present it returns true.  A run that follows a run which
\* returned true and meets the same fault leaves the gadget as it was.
InitValuesIdempotentSameFault ==
    [][be_last' = "init_values" =>
          /\ be_ret' = (gadget_root \/ configfs_probed = 1)
          /\ be_ret' = (configfs_probed' = 1)
          /\ ~be_ret' => (be_trace' = <<>> /\ GadgetFiles' = GadgetFiles)
          /\ (be_last = "init_values" /\ be_ret /\ be_fault' = be_fault)
                => GadgetFiles' = GadgetFiles]_vars

InitValuesWitness ==
    /\ be_last = "init_values"
    /\ be_ret
    /\ be_fault = NoFault
    /\ mtp_ep0
    /\ \A e \in Events(be_trace) : e[1] # "mount"
    /\ function_dirs = GadgetFunctions
    /\ id_vendor = android_vendor_id
    /\ udc_attr = <<>>

(***************************************************************************)
(* Backend kind                                                            *)
(***************************************************************************)
\* C30 as stated: once the probe has run, configfs_in_use() never changes.
BackendKindImmutable ==
    [][configfs_probed >= 0 =>
          (configfs_probed' > 0) = (configfs_probed > 0)]_vars

\* C30: once the probe has found the gadget root configfs_in_use() stays
\* true, whatever happens to the root; as long as it has not, every
\* configfs_init_values probes again and configfs_in_use() turns true
\* when the root has appeared.
BackendKindSticky ==
    [][/\ configfs_probed > 0 => configfs_probed' > 0
       /\ configfs_probed >= 0 => configfs_probed' >= 0
       /\ (be_last' = "init_values" /\ configfs_probed <= 0)
             => configfs_probed' = (IF gadget_root THEN 1 ELSE 0)
       /\ be_last' # "init_values" => configfs_probed' = configfs_probed]_vars

BackendKindWitness ==
    /\ be_last = "init_values"
    /\ be_ret
    /\ configfs_probed = 1
    /\ ~gadget_root

(***************************************************************************)
(* C31: when the configured device path is absent, the observer watches    *)
(* the enumerated power_supply device with the highest score (+10 usb in   *)
(* the name, +5 charger in the name, +5 PRESENT exists, +10 ONLINE exists, *)
(* +10 TYPE exists, 0 for a battery name), the first one on a tie; when no *)
(* device scores above 0 the start fails and the observer holds nothing:   *)
(* no io watch, no device name, no timer.                                  *)
(***************************************************************************)
SupplyPoints(d) ==
    IF d.name.battery
    THEN 0
    ELSE 10 * Cardinality({w \in {"usb"} : d.name.usb}
                          \cup {w \in {"online"} : d.props.online # ABSENT}
                          \cup {w \in {"type"} : d.props.type # ABSENT})
         + 5 * Cardinality({w \in {"charger"} : d.name.charger}
                           \cup {w \in {"present"} : d.props.present # ABSENT})

BestSupplies ==
    {i \in 1..Len(power_supplies) :
        /\ SupplyPoints(power_supplies[i]) > 0
        /\ \A j \in 1..Len(power_supplies) :
              /\ SupplyPoints(power_supplies[j]) <= SupplyPoints(power_supplies[i])
              /\ j < i => SupplyPoints(power_supplies[j])
                              < SupplyPoints(power_supplies[i])}

ObserverReleased ==
    /\ umudev_watch_id = 0
    /\ umudev_sysname = 0
    /\ cable_state_timer_id = 0
    /\ timer_sources = {}

TimerPendingStates ==
    cable_state_timer_id # 0 =>
        /\ cable_state_current = CABLE_STATE_PC_CONNECTED
        /\ cable_state_active \in {CABLE_STATE_DISCONNECTED,
                                   CABLE_STATE_CHARGER_CONNECTED}

TimerExpiryPromotes ==
    obs_last' = "timer" =>
        /\ cable_state_active # CABLE_STATE_PC_CONNECTED
        /\ cable_state_active' = CABLE_STATE_PC_CONNECTED
        /\ cable_state_previous' = cable_state_active
        /\ cable_state_timer_id' = 0

\* C32: a pending timer means PcConnected is reported and a known other
\* state is active, and every expiry makes PcConnected active.
PendingTimerInvariant == []TimerPendingStates /\ [][TimerExpiryPromotes]_vars

\* The timer has expired while a charger was the active state.
PendingTimerWitness ==
    /\ obs_last = "timer"
    /\ cable_state_previous = CABLE_STATE_CHARGER_CONNECTED
    /\ cable_state_active = CABLE_STATE_PC_CONNECTED

(***************************************************************************)
(* C33: whenever no debounce timer is pending, the active cable state is   *)
(* the reported one, also after a restart of the observer.                 *)
(***************************************************************************)
ReportedIsActive ==
    cable_state_timer_id = 0 => cable_state_active = cable_state_current

(***************************************************************************)
(* C34: a change of the active cable state notifies the disconnect of the  *)
(* previously active kind before the connect of the newly active kind; a   *)
(* kind is never notified twice alike in a row, the first notification of  *)
(* a kind is a connect, and charger and PC are never both notified as      *)
(* connected, not even between two notifications of one step.              *)
(***************************************************************************)
KindOf(state) ==
    IF state = CABLE_STATE_CHARGER_CONNECTED
    THEN <<"charger">>
    ELSE IF state = CABLE_STATE_PC_CONNECTED THEN <<"usb">> ELSE <<>>

ExpectedNotifications(old, new) ==
    IF old = new
    THEN <<>>
    ELSE [i \in 1..Len(KindOf(old)) |-> <<KindOf(old)[i], FALSE>>]
         \o [i \in 1..Len(KindOf(new)) |-> <<KindOf(new)[i], TRUE>>]

NotificationStep ==
    /\ notified' = ExpectedNotifications(cable_state_active, cable_state_active')
    /\ \A i \in 1..Len(notified') :
          LET before == Delivered(downstream, notified', i - 1)
              after == Delivered(downstream, notified', i)
          IN  /\ before[notified'[i][1]] # notified'[i][2]
              /\ ~(after["charger"] /\ after["usb"])

\* C34: every step notifies the disconnect of the old kind before the
\* connect of the new kind, alternating per kind, never both connected.
NotificationOrder == [][NotificationStep]_vars

\* The timer expires while a charger is active: charger disconnect, then
\* PC connect.
NotificationOrderWitness ==
    /\ obs_last = "timer"
    /\ notified = <<<<"charger", FALSE>>, <<"usb", TRUE>>>>
    /\ downstream = [k \in {"charger", "usb"} |-> k = "usb"]

(***************************************************************************)
(* C35: whenever the controller's cable state is Disconnected, the         *)
(* external mode is busy or undefined, also when the completion of a       *)
(* switch that was in flight at the disconnect is delivered afterwards.    *)
(***************************************************************************)
NoStaleModeAfterDisconnect ==
    control_cable_state = CABLE_STATE_DISCONNECTED =>
        control_get_external_mode(Ctl) \in {MODE_BUSY, MODE_UNDEFINED}

(***************************************************************************)
(* C36: when no backend step fails, then once the worker is idle and all   *)
(* completions are delivered the internal mode is the mode of the most     *)
(* recent control_set_usb_mode call.                                       *)
(***************************************************************************)
WorkerIdle ==
    /\ worker_active_mode = NULL
    /\ worker_requested_mode = NULL
    /\ completions = <<>>

\* C36: with the worker idle and all completions delivered, the internal
\* mode is the mode of the most recent request.
LatestRequestWins ==
    WorkerIdle /\ co_posted # <<>> =>
        control_internal_mode = co_posted[Len(co_posted)]

(***************************************************************************)
(* C37: while the active user is the one for whom every mode so far was    *)
(* requested, a user-change notification leaves the controller as it is,   *)
(* also while the external mode is busy.                                   *)
(***************************************************************************)
UserChangedStep ==
    last' = "user_changed" =>
        UNCHANGED <<ctlvars, worker_active_mode, completions>>

\* C37: a user-change notification without a change of user leaves the
\* controller unchanged.
SameUserIsNoOp == [][UserChangedStep]_vars

(***************************************************************************)
(* C38: the target mode, and the value of every target_state signal, is    *)
(* its own canonical external mapping: no internal-only name such as       *)
(* charging_fallback is published as target.                               *)
(***************************************************************************)
TargetIsExternal ==
    /\ control_target_mode = common_map_mode_to_external(control_target_mode)
    /\ \A i \in 1..Len(signals) :
          signals[i][1] = "target_state" =>
              signals[i][2] = common_map_mode_to_external(signals[i][2])

(***************************************************************************)
(* C39: while the external mode is busy, the target mode is the internal   *)
(* mode and the mode has no owner; the owner becomes the current user only *)
(* in a control_mode_switched step in which the external mode leaves busy. *)
(***************************************************************************)
BusyBookkeeping ==
    control_external_mode = MODE_BUSY =>
        /\ control_target_mode = control_internal_mode
        /\ control_user_for_mode = UID_UNKNOWN

OwnerSetStep ==
    control_user_for_mode' # control_user_for_mode
    /\ control_user_for_mode' # UID_UNKNOWN =>
        /\ last' = "mode_switched"
        /\ control_user_for_mode' = current_user
        /\ control_external_mode = MODE_BUSY
        /\ control_external_mode' # MODE_BUSY

OwnerSetOnlyByModeSwitched ==
    control_user_for_mode' # control_user_for_mode
    /\ control_user_for_mode' # UID_UNKNOWN =>
        /\ last' = "mode_switched"
        /\ control_user_for_mode' = current_user
        /\ control_external_mode' # MODE_BUSY

====
